---- MODULE Spec2Model ----
(***************************************************************************)
(* Transaction lifecycle and inventory protocol of the flower-shop bot:    *)
(* the append-only BigQuery ledger (BigQueryUtils), the Firestore          *)
(* inventory (FirestoreInventoryManager) and the message handlers          *)
(* (BotService) that coordinate them.                                      *)
(***************************************************************************)
EXTENDS Integers, Sequences, FiniteSets, TLC

VARIABLES
    ledger,              \* rows of the BigQuery transactions table, in insertion order
    audit_logs,          \* rows of the BigQuery audit_logs table
    inventory,           \* Firestore collection "inventory": document id -> quantity
    inventory_issues,    \* Firestore collection "inventory_issues"
    inventory_loss,      \* Firestore collection "inventory_loss"
    today,               \* the shop-local calendar day, datetime.now(self.timezone)
    is_deleted_default,  \* what the table stores when a row has no is_deleted key
    next_uuid,           \* the next value uuid.uuid4() returns
    last,                \* the last call of the BigQueryUtils / inventory API and its outcome
    pc,                  \* position of the message handler in flight
    msg,                 \* the handler's locals
    sent,                \* messages sent to the chat, the owner and the developer
    deducted,            \* history: the (transaction_id, document) pairs deduct_inventory wrote
    snap,                \* history: the stores as they were when the handler started
    config               \* the bot configuration: which of developerID, liveNotifications are set

vars == <<ledger, audit_logs, inventory, inventory_issues, inventory_loss, today,
          is_deleted_default, next_uuid, last, pc, msg, sent, deducted, snap, config>>

-----------------------------------------------------------------------------
(* Bounds of the model *)

MaxRows == 4     \* ledger rows
MaxUuid == 2     \* uuid4() values handed out
MaxDay == 2      \* calendar days the clock runs through
MaxQty == 2      \* units in one sale line or inventory entry
MaxStock == 3    \* units a restore may bring a document to
MaxIssues == 1   \* documents in the inventory_issues collection
MaxLogs == 3     \* audit_logs rows when a command is taken

\* entries of inventory_loss below which a loss command is taken
MaxLoss == 2

-----------------------------------------------------------------------------
(* Values *)

\* Python None / SQL NULL in a numeric field.
NoneNum == -99

\* A key that the dict does not have (numeric-valued keys); the string-valued
\* keys use "Missing", and None in a string field is "None".
Missing == -98

Line(item, quality, quantity) ==
    [item |-> item, quality |-> quality, quantity |-> quantity]

\* The structured payload json.loads(gpt_response) yields: the keys of the
\* extractor's schema, and no transaction_id, date, operation or is_deleted.
Extracted(sales, expenses, total, method, sender) ==
    [transaction_id |-> Missing, date |-> Missing,
     sales |-> sales, expenses |-> expenses,
     total_sale_price |-> total, payment_method |-> method,
     operation |-> "Missing", is_deleted |-> "Missing",
     sender_name |-> sender]

CashSale == Extracted(<<Line("rosa", "regular", 2)>>, <<>>, 10, "cash", "mila")

TransferSale ==
    Extracted(<<Line("Rosa Ecuador", "regular", 1)>>, <<>>, 5, "bank_transfer", "None")

Expense == Extracted(<<>>, <<3>>, NoneNum, "None", "josue")

\* json.loads keeps whatever keys the extractor wrote: a payload that carries
\* its own transaction_id, date, operation and is_deleted.
Forged ==
    [CashSale EXCEPT !.transaction_id = 1, !.date = 1,
                     !.operation = "deleted", !.is_deleted = "TRUE"]

\* Payloads that pass the "neither sales nor expenses" test of the handler.
InsertPayloads == {CashSale, Expense}

EditPayloads == {CashSale, Expense, Forged}

\* transaction ids a user can type in a command
TypedIds == 1..MaxUuid

-----------------------------------------------------------------------------
(* BigQueryUtils *)

\* the buggy variant: the key is assigned whether the dict has it or not
setdefault_overwrite(d, key, value) == [d EXCEPT ![key] = value]

\* dict.setdefault on a numeric-valued key
setdefault(d, key, value) ==
    IF d[key] = Missing THEN [d EXCEPT ![key] = value] ELSE d

\* client.insert_rows_json(table_id, [row]) without row-level errors: the row
\* is appended; a key the row lacks is stored as NULL (is_deleted: as the
\* column's default).
insert_rows_json(led, row) ==
    Append(led,
        [row EXCEPT
            !.date = IF @ = Missing THEN NoneNum ELSE @,
            !.operation = IF @ = "Missing" THEN "None" ELSE @,
            !.is_deleted = IF @ = "Missing" THEN is_deleted_default ELSE @])

\* the buggy variant: row-level errors are not raised
insert_to_bigquery_swallow(led, row, uuid, errors) ==
    LET r == setdefault(row, "transaction_id", uuid)
    IN  [raised |-> "none",
         ledger |-> IF errors THEN led ELSE insert_rows_json(led, r),
         row |-> r]

\* insert_to_bigquery(row): `errors` is what insert_rows_json reports.
\* Returns the exception raised, the ledger after the call and the row dict
\* (mutated in place by setdefault).
insert_to_bigquery(led, row, uuid, errors) ==
    LET r == setdefault(row, "transaction_id", uuid)
    IN  [raised |-> IF errors THEN "RuntimeError" ELSE "none",
         ledger |-> IF errors THEN led ELSE insert_rows_json(led, r),
         row |-> r]

\* The rows the query of safe_delete matches:
\* WHERE transaction_id = @transaction_id AND operation IS NULL
LiveMatches(led, transaction_id) ==
    {i \in 1..Len(led) :
        led[i].transaction_id = transaction_id /\ led[i].operation = "None"}

\* LIMIT 1 / list(result)[0] with no ORDER BY: any matching row; 0 when none.
Picks(matches) == IF matches = {} THEN {0} ELSE matches

\* the buggy variant: the tombstone keeps the date of the row it copies
Shadow_keeps_date(original, day) ==
    [original EXCEPT !.operation = "deleted", !.is_deleted = "TRUE"]

\* shadow = dict(original) with operation, is_deleted and date overwritten
Shadow(original, day) ==
    [original EXCEPT !.operation = "deleted", !.is_deleted = "TRUE", !.date = day]

\* the buggy variant: the found row is overwritten instead of shadowed
safe_delete_in_place(led, transaction_id, i, day, uuid, errors) ==
    IF i = 0
    THEN [raised |-> "ValueError", ledger |-> led]
    ELSE [raised |-> IF errors THEN "RuntimeError" ELSE "none",
          ledger |-> IF errors THEN led
                     ELSE [led EXCEPT ![i] = Shadow(led[i], day)]]

\* safe_delete(transaction_id): i is the row the query returned (0: none).
safe_delete(led, transaction_id, i, day, uuid, errors) ==
    IF i = 0
    THEN [raised |-> "ValueError", ledger |-> led]
    ELSE LET ins == insert_to_bigquery(led, Shadow(led[i], day), uuid, errors)
         IN  [raised |-> ins.raised, ledger |-> ins.ledger]

\* the buggy variant: the payload's own transaction_id is kept
Forced_keep_id(new_data, transaction_id, day) ==
    [setdefault(setdefault(new_data, "date", day), "transaction_id", transaction_id)
        EXCEPT !.operation = "None", !.is_deleted = "FALSE"]

\* new_data after lines 88-91 of safe_edit
Forced(new_data, transaction_id, day) ==
    [setdefault(new_data, "date", day) EXCEPT
        !.transaction_id = transaction_id,
        !.operation = "None",
        !.is_deleted = "FALSE"]

\* the buggy variant: the failure of safe_delete is swallowed
safe_edit_ignore_delete(led, transaction_id, new_data, i, day, uuid, errors1, errors2) ==
    LET del == safe_delete(led, transaction_id, i, day, uuid, errors1)
        ins == insert_to_bigquery(del.ledger, Forced(new_data, transaction_id, day),
                                  uuid, errors2)
    IN  [raised |-> ins.raised, ledger |-> ins.ledger, row |-> ins.row]

\* safe_edit(transaction_id, new_data): errors1 / errors2 are what the two
\* ledger writes report.
safe_edit(led, transaction_id, new_data, i, day, uuid, errors1, errors2) ==
    LET del == safe_delete(led, transaction_id, i, day, uuid, errors1)
    IN  IF del.raised # "none"
        THEN [raised |-> del.raised, ledger |-> del.ledger, row |-> new_data]
        ELSE insert_to_bigquery(del.ledger, Forced(new_data, transaction_id, day),
                                uuid, errors2)

\* The rows the query of get_transaction_by_id matches:
\* WHERE transaction_id = @transaction_id AND operation IS NULL AND is_deleted = FALSE
\* (a NULL is_deleted does not satisfy is_deleted = FALSE).
GetMatches(led, transaction_id) ==
    {i \in 1..Len(led) :
        /\ led[i].transaction_id = transaction_id
        /\ led[i].operation = "None"
        /\ led[i].is_deleted = "FALSE"}

\* get_transaction_by_id: list(result)[0] if result.total_rows > 0 else None,
\* as a sequence of at most one row.
get_transaction_by_id(led, i) == IF i = 0 THEN <<>> ELSE <<led[i]>>

\* UNNEST: the elements of the arrays, one after the other
RECURSIVE UNNEST(_)
UNNEST(arrays) ==
    IF arrays = <<>> THEN <<>> ELSE Head(arrays) \o UNNEST(Tail(arrays))

RECURSIVE Plus(_)
Plus(values) == IF values = <<>> THEN 0 ELSE Head(values) + Plus(Tail(values))

\* SQL SUM: NULLs are skipped, and the sum of no value is NULL
SUM(values) ==
    LET NotNull(v) == v # NoneNum
    IN  IF SelectSeq(values, NotNull) = <<>> THEN NoneNum
        ELSE Plus(SelectSeq(values, NotNull))

\* the buggy variant: the rows of every transaction that is not a tombstone
unique_transactions_not_deleted(led) ==
    LET Kept(row) == row.operation = "None"
    IN  SelectSeq(led, Kept)

\* CTE unique_transactions: the rows whose transaction_id has
\* COUNT(transaction_id) = 1 in the whole table
unique_transactions(led) ==
    LET Kept(row) ==
            Cardinality({i \in 1..Len(led) :
                            led[i].transaction_id = row.transaction_id}) = 1
    IN  SelectSeq(led, Kept)

\* the buggy variant: the date filter is left out
ventas_any_date(rows, payment_method, date) ==
    LET Kept(row) == row.payment_method = payment_method
        kept == SelectSeq(rows, Kept)
    IN  SUM([n \in 1..Len(kept) |-> kept[n].total_sale_price])

\* CTEs ventas_efectivo and ventas_transferencia
ventas(rows, payment_method, date) ==
    LET Kept(row) == row.payment_method = payment_method /\ row.date = date
        kept == SelectSeq(rows, Kept)
    IN  SUM([n \in 1..Len(kept) |-> kept[n].total_sale_price])

\* CTE gastos_totales
gastos_totales(rows, date) ==
    LET Kept(row) == row.date = date
        kept == SelectSeq(rows, Kept)
    IN  SUM(UNNEST([n \in 1..Len(kept) |-> kept[n].expenses]))

\* the buggy variant: COUNT(transaction_id) = 1 is taken over the rows of the
\* date only
get_closure_report_in_date_scope(led, date) ==
    LET OfDate(row) == row.date = date
        rows == unique_transactions(SelectSeq(led, OfDate))
    IN  [efectivo_sales |-> ventas(rows, "cash", date),
         transfer_sales |-> ventas(rows, "bank_transfer", date),
         total_expenses |-> gastos_totales(rows, date)]

\* get_closure_report_by_date(date): the query always yields one row
get_closure_report_by_date(led, date) ==
    [efectivo_sales |-> ventas(unique_transactions(led), "cash", date),
     transfer_sales |-> ventas(unique_transactions(led), "bank_transfer", date),
     total_expenses |-> gastos_totales(unique_transactions(led), date)]

-----------------------------------------------------------------------------
(* FirestoreInventoryManager *)

\* the buggy variant: names are compared as written
lower_as_written(s) == s

\* str.lower() on the item names of the model
lower(s) ==
    CASE s = "Rosa Ecuador" -> "rosa ecuador"
      [] s = "Clavel Rojo" -> "clavel rojo"
      [] OTHER -> s

\* The documents of the collection "inventory_synonyms", in stream order.
\* The second document has no "quality" field.
inventory_synonyms ==
    << [alias |-> "rosa ecuador", item |-> "rosa", quality |-> "special"],
       [alias |-> "Clavel Rojo", item |-> "clavel", quality |-> "Missing"] >>

\* resolve_synonyms(item, quality): the first document whose alias matches
SynonymHits(item) ==
    {n \in 1..Len(inventory_synonyms) :
        lower(inventory_synonyms[n].alias) = lower(item)}

\* the buggy variant: the name is used as written
resolve_synonyms_as_written(item, quality) == <<item, quality>>

resolve_synonyms(item, quality) ==
    IF SynonymHits(item) = {}
    THEN <<item, quality>>
    ELSE LET data == inventory_synonyms[
                        CHOOSE n \in SynonymHits(item) :
                            \A m \in SynonymHits(item) : n <= m]
         IN  <<data.item, IF data.quality = "Missing" THEN quality ELSE data.quality>>

\* the document id f"{item}_{quality}"
document(item, quality) == item \o "_" \o quality

\* int(inventory_data["quantity"]), defaulting to 0 when the conversion fails
int_or_zero(quantity) == IF quantity = NoneNum THEN 0 ELSE quantity

max(a, b) == IF a >= b THEN a ELSE b

\* the buggy variant: only an empty record counts as a shortfall
shortfall_when_empty(inventory_qty, quantity) == inventory_qty <= 0

\* the test `inventory_qty < quantity` of deduct_inventory
shortfall(inventory_qty, quantity) == inventory_qty < quantity

\* the buggy variant: no floor at 0
deducted_quantity_unclamped(inventory_qty, quantity) == inventory_qty - quantity

\* new_quantity of deduct_inventory
deducted_quantity(inventory_qty, quantity) == max(0, inventory_qty - quantity)

\* the buggy variant: the restored quantity replaces the stored one
restored_quantity_set(stored, quantity) == max(0, quantity)

\* new_quantity of restore_inventory
restored_quantity(stored, quantity) == max(0, stored + quantity)

Issue(transaction_id, item, quality, quantity, reason) ==
    [transaction_id |-> transaction_id, item |-> item, quality |-> quality,
     requested_qty |-> quantity, reason |-> reason]

\* the buggy variant: a missing document gets its issue and is then created
\* with quantity 0 instead of being skipped
deduct_line_no_continue(st, sale, transaction_id) ==
    LET resolved == resolve_synonyms(sale.item, sale.quality)
        item == resolved[1]
        quality == resolved[2]
        doc == document(item, quality)
        quantity == sale.quantity
    IN  IF st.raised # "none" THEN st
        ELSE IF doc \notin DOMAIN st.inventory
        THEN [st EXCEPT
                !.issues = Append(@, Issue(transaction_id, item, quality, quantity,
                                           "no existe en inventario")),
                !.inventory = @ @@ (doc :> 0),
                !.written = Append(@, doc)]
        ELSE LET inventory_qty == int_or_zero(st.inventory[doc])
             IN  IF quantity = NoneNum
                 THEN [st EXCEPT !.raised = "TypeError"]
                 ELSE [st EXCEPT
                         !.issues = IF shortfall(inventory_qty, quantity)
                                    THEN Append(@, Issue(transaction_id, item, quality,
                                                quantity, "no hay suficiente inventario"))
                                    ELSE @,
                         !.inventory = [@ EXCEPT ![doc] =
                                           deducted_quantity(inventory_qty, quantity)],
                         !.written = Append(@, doc)]

\* One pass of the loop body of deduct_inventory over sale, from the state
\* st = [inventory, issues, written, raised] of the call so far.
\* A None quantity raises TypeError at `inventory_qty < quantity`.
deduct_line(st, sale, transaction_id) ==
    LET resolved == resolve_synonyms(sale.item, sale.quality)
        item == resolved[1]
        quality == resolved[2]
        doc == document(item, quality)
        quantity == sale.quantity
    IN  IF st.raised # "none" THEN st
        ELSE IF doc \notin DOMAIN st.inventory
        THEN [st EXCEPT !.issues = Append(@,
                 Issue(transaction_id, item, quality, quantity, "no existe en inventario"))]
        ELSE LET inventory_qty == int_or_zero(st.inventory[doc])
             IN  IF quantity = NoneNum
                 THEN [st EXCEPT !.raised = "TypeError"]
                 ELSE [st EXCEPT
                         !.issues = IF shortfall(inventory_qty, quantity)
                                    THEN Append(@, Issue(transaction_id, item, quality,
                                                quantity, "no hay suficiente inventario"))
                                    ELSE @,
                         !.inventory = [@ EXCEPT ![doc] =
                                           deducted_quantity(inventory_qty, quantity)],
                         !.written = Append(@, doc)]

RECURSIVE deduct_loop(_, _, _, _)
deduct_loop(st, sales, n, transaction_id) ==
    IF n > Len(sales) THEN st
    ELSE deduct_loop(deduct_line(st, sales[n], transaction_id), sales, n + 1,
                     transaction_id)

min(a, b) == IF a <= b THEN a ELSE b

\* the buggy variant: the issues are returned but not added to the collection
deduct_inventory_unlogged(inv, log, sales, transaction_id, fails_at) ==
    LET st == deduct_loop([inventory |-> inv, issues |-> <<>>, written |-> <<>>,
                           raised |-> "none"],
                          SubSeq(sales, 1, min(fails_at, Len(sales))), 1, transaction_id)
        raised == IF st.raised # "none" THEN st.raised
                  ELSE IF fails_at < Len(sales) THEN "FirestoreError"
                  ELSE "none"
    IN  [inventory |-> st.inventory,
         returned |-> IF raised = "none" THEN st.issues ELSE <<>>,
         inventory_issues |-> log,
         written |-> st.written,
         raised |-> raised]

\* deduct_inventory(sales, transaction_id): the inventory after the call, the
\* issues it returned (none when it raised), the inventory_issues collection
\* after the call, the documents it wrote and the exception it raised.
\* fails_at is the number of sale lines handled before a Firestore call
\* raises: the get of line fails_at + 1, or with every line handled the first
\* add of an issue; Len(sales) + 1 when no Firestore call raises.
deduct_inventory(inv, log, sales, transaction_id, fails_at) ==
    LET st == deduct_loop([inventory |-> inv, issues |-> <<>>, written |-> <<>>,
                           raised |-> "none"],
                          SubSeq(sales, 1, min(fails_at, Len(sales))), 1, transaction_id)
        raised == IF st.raised # "none" THEN st.raised
                  ELSE IF fails_at < Len(sales) THEN "FirestoreError"
                  ELSE IF fails_at = Len(sales) /\ st.issues # <<>> THEN "FirestoreError"
                  ELSE "none"
    IN  [inventory |-> st.inventory,
         returned |-> IF raised = "none" THEN st.issues ELSE <<>>,
         inventory_issues |-> IF raised = "none" THEN log \o st.issues ELSE log,
         written |-> st.written,
         raised |-> raised]

\* the buggy variant: the quantity is added to the stored one
update_inventory_add(inv, item, quality, quantity) ==
    LET resolved == resolve_synonyms(item, quality)
        doc == document(resolved[1], resolved[2])
    IN  IF doc \in DOMAIN inv
        THEN [inv EXCEPT ![doc] = @ + quantity]
        ELSE inv @@ (doc :> quantity)

\* update_inventory(item, quality, quantity): set(..., merge=True) on the
\* resolved document
update_inventory(inv, item, quality, quantity) ==
    LET resolved == resolve_synonyms(item, quality)
        doc == document(resolved[1], resolved[2])
    IN  IF doc \in DOMAIN inv
        THEN [inv EXCEPT ![doc] = quantity]
        ELSE inv @@ (doc :> quantity)

\* the buggy variant: a missing document is an error
restore_inventory_needs_record(inv, item, quality, quantity) ==
    LET resolved == resolve_synonyms(item, quality)
        doc == document(resolved[1], resolved[2])
    IN  IF doc \in DOMAIN inv
        THEN IF inv[doc] = NoneNum \/ quantity = NoneNum
             THEN [inventory |-> inv, raised |-> "TypeError"]
             ELSE [inventory |-> [inv EXCEPT ![doc] = restored_quantity(inv[doc], quantity)],
                   raised |-> "none"]
        ELSE [inventory |-> inv, raised |-> "KeyError"]

\* restore_inventory(item, quality, quantity): the inventory after the call
\* and the exception raised (None + int, int + None: TypeError)
restore_inventory(inv, item, quality, quantity) ==
    LET resolved == resolve_synonyms(item, quality)
        doc == document(resolved[1], resolved[2])
    IN  IF doc \in DOMAIN inv
        THEN IF inv[doc] = NoneNum \/ quantity = NoneNum
             THEN [inventory |-> inv, raised |-> "TypeError"]
             ELSE [inventory |-> [inv EXCEPT ![doc] = restored_quantity(inv[doc], quantity)],
                   raised |-> "none"]
        ELSE [inventory |-> update_inventory(inv, resolved[1], resolved[2], quantity),
              raised |-> "none"]

-----------------------------------------------------------------------------
(* The calls of the ledger API, one at a time *)

NoCall == [op |-> "none", transaction_id |-> Missing, raised |-> "none",
           before |-> 0, returned |-> <<>>]

Called(op, transaction_id, raised, returned) ==
    [op |-> op, transaction_id |-> transaction_id, raised |-> raised,
     before |-> Len(ledger), returned |-> returned]

otherVars == <<audit_logs, inventory, inventory_issues, inventory_loss, pc, msg, sent,
               deducted, snap, config>>

\* uuid4() is evaluated by every insert_to_bigquery; the value is used, and
\* the model's counter advances, only when the row has no transaction_id.
UuidUsed(row) == row.transaction_id = Missing

\* structured_data.setdefault("date", today); insert_to_bigquery(structured_data)
InsertOf(payloads) ==
    \E payload \in payloads, errors \in BOOLEAN :
        LET row == setdefault(payload, "date", today)
            res == insert_to_bigquery(ledger, row, next_uuid, errors)
        IN  /\ Len(ledger) < MaxRows
            /\ UuidUsed(row) => next_uuid <= MaxUuid
            /\ ledger' = res.ledger
            /\ next_uuid' = IF UuidUsed(row) THEN next_uuid + 1 ELSE next_uuid
            /\ last' = Called("insert", res.row.transaction_id, res.raised, <<>>)
            /\ UNCHANGED <<today, is_deleted_default, otherVars>>

Insert == InsertOf(InsertPayloads)

SafeDelete ==
    \E transaction_id \in TypedIds, errors \in BOOLEAN :
        \E i \in Picks(LiveMatches(ledger, transaction_id)) :
            LET res == safe_delete(ledger, transaction_id, i, today, next_uuid, errors)
            IN  /\ Len(ledger) < MaxRows
                /\ ledger' = res.ledger
                /\ last' = Called("safe_delete", transaction_id, res.raised, <<>>)
                /\ UNCHANGED <<today, is_deleted_default, next_uuid, otherVars>>

SafeEdit ==
    \E transaction_id \in TypedIds, new_data \in EditPayloads,
       errors1 \in BOOLEAN, errors2 \in BOOLEAN :
        \E i \in Picks(LiveMatches(ledger, transaction_id)) :
            LET res == safe_edit(ledger, transaction_id, new_data, i, today,
                                 next_uuid, errors1, errors2)
            IN  /\ Len(ledger) + 2 <= MaxRows
                /\ ledger' = res.ledger
                /\ last' = Called("safe_edit", transaction_id, res.raised, <<>>)
                /\ UNCHANGED <<today, is_deleted_default, next_uuid, otherVars>>

GetTransactionById ==
    \E transaction_id \in TypedIds :
        \E i \in Picks(GetMatches(ledger, transaction_id)) :
            /\ last' = Called("get_transaction_by_id", transaction_id, "none",
                              get_transaction_by_id(ledger, i))
            /\ UNCHANGED <<ledger, today, is_deleted_default, next_uuid, otherVars>>

\* midnight in the shop's timezone
Tick ==
    /\ today < MaxDay
    /\ today' = today + 1
    /\ UNCHANGED <<ledger, is_deleted_default, next_uuid, last, otherVars>>

Init ==
    /\ ledger = <<>>
    /\ audit_logs = <<>>
    /\ inventory = <<>>
    /\ inventory_issues = <<>>
    /\ inventory_loss = <<>>
    /\ today = 1
    /\ is_deleted_default \in {"None", "FALSE"}
    /\ next_uuid = 1
    /\ last = NoCall
    /\ pc = "idle"
    /\ msg = <<>>
    /\ sent = <<>>
    /\ deducted = {}
    /\ snap = <<>>
    /\ config = [developerID |-> TRUE, liveNotifications |-> FALSE]

Next == Insert \/ SafeDelete \/ SafeEdit \/ GetTransactionById \/ Tick

Spec == Init /\ [][Next]_vars

-----------------------------------------------------------------------------
(* Inserts of payloads that may carry their own transaction_id *)

\* json.loads keeps a transaction_id the extractor wrote: an expense that
\* carries one, which uuid4() never hands out
Carried == [Expense EXCEPT !.transaction_id = 0]

IdentityPayloads == {CashSale, Carried}

InsertCarried == InsertOf(IdentityPayloads)

NextIdentity == InsertCarried \/ SafeDelete \/ SafeEdit

\* the identity of a row does not depend on is_deleted
InitIdentity == Init /\ is_deleted_default = "FALSE"

SpecIdentity == InitIdentity /\ [][NextIdentity]_vars

-----------------------------------------------------------------------------
(* The closure report over the ledger *)

\* a cash sale that also records two expenses
SaleWithExpenses ==
    Extracted(<<Line("rosa", "regular", 1)>>, <<1, 2>>, 4, "cash", "mila")

ReportPayloads == {SaleWithExpenses, TransferSale, Expense}

ReportDates == 1..MaxDay

InsertAny == InsertOf(ReportPayloads)

GetClosureReport ==
    \E date \in ReportDates :
        /\ last' = [op |-> "get_closure_report_by_date", date |-> date,
                    raised |-> "none", before |-> Len(ledger),
                    returned |-> <<get_closure_report_by_date(ledger, date)>>]
        /\ UNCHANGED <<ledger, today, is_deleted_default, next_uuid, otherVars>>

NextReport == InsertAny \/ SafeDelete \/ SafeEdit \/ GetClosureReport \/ Tick

\* the report does not read is_deleted
InitReport == Init /\ is_deleted_default = "FALSE"

SpecReport == InitReport /\ [][NextReport]_vars

-----------------------------------------------------------------------------
(* The calls of the inventory manager, one at a time *)

Items == {"rosa", "Rosa Ecuador"}

Qualities == {"regular", "special"}

\* quantity of a sale line: "int or null"
SaleQuantities == {1, MaxQty, NoneNum}

\* the extractor writes quality "regular" unless the message says otherwise
SaleLines ==
    {Line("rosa", quality, quantity) :
        quality \in Qualities, quantity \in SaleQuantities}
    \cup {Line("Rosa Ecuador", "regular", quantity) : quantity \in SaleQuantities}

\* the sales lists of the model: every single line, and the two-line lists
\* that sell rosa and then one unit of its alias
SalesLists ==
    {<<line>> : line \in SaleLines}
    \cup {<<Line("rosa", "regular", quantity), Line("Rosa Ecuador", "regular", 1)>> :
            quantity \in SaleQuantities}

\* the call, its arguments (the sale lines, or the one entry of an update or
\* a restore), the stores as the call found them, and its outcome
\* history: for a restore that follows a completed deduct of the same line,
\* the inventory as that deduct found it
Undoes(op, lines) ==
    IF /\ op = "restore_inventory"
       /\ last.op = "deduct_inventory"
       /\ last.raised = "none"
       /\ last.lines = lines
    THEN <<last.inventory>>
    ELSE <<>>

InventoryCalled(op, lines, raised, returned) ==
    [op |-> op, lines |-> lines, raised |-> raised, returned |-> returned,
     inventory |-> inventory, issues |-> Len(inventory_issues),
     undoes |-> Undoes(op, lines)]

ledgerVars == <<ledger, audit_logs, inventory_loss, today, is_deleted_default,
                next_uuid, pc, msg, sent, deducted, snap, config>>

\* bulk intake: quantity is an int
Update ==
    \E item \in Items, quality \in Qualities, quantity \in 0..MaxQty :
        /\ inventory' = update_inventory(inventory, item, quality, quantity)
        /\ last' = InventoryCalled("update_inventory",
                                   <<Line(item, quality, quantity)>>, "none", <<>>)
        /\ UNCHANGED <<inventory_issues, ledgerVars>>

Deduct ==
    \E sales \in SalesLists :
        \E res \in {deduct_inventory(inventory, inventory_issues, sales, 1,
                                      Len(sales) + 1)} :
            /\ Len(res.inventory_issues) <= MaxIssues
            /\ inventory' = res.inventory
            /\ inventory_issues' = res.inventory_issues
            /\ last' = InventoryCalled("deduct_inventory", sales, res.raised,
                                       res.returned)
            /\ UNCHANGED ledgerVars

\* the lines of a stored transaction's sales are restored one by one
Restore ==
    \E sale \in SaleLines :
        \E res \in {restore_inventory(inventory, sale.item, sale.quality, sale.quantity)} :
            /\ \A doc \in DOMAIN res.inventory : res.inventory[doc] <= MaxStock
            /\ inventory' = res.inventory
            /\ last' = InventoryCalled("restore_inventory", <<sale>>, res.raised, <<>>)
            /\ UNCHANGED <<inventory_issues, ledgerVars>>

NextInventory == Update \/ Deduct \/ Restore

InitInventory == Init /\ is_deleted_default = "FALSE"

SpecInventory == InitInventory /\ [][NextInventory]_vars

\* the item names a message may carry, in the spellings of the model
ResolveItems == {"rosa", "Rosa Ecuador", "rosa ecuador", "Clavel Rojo", "clavel rojo"}

\* resolve_synonyms(item, quality), called on its own
Resolve ==
    \E item \in ResolveItems, quality \in Qualities :
        /\ last' = InventoryCalled("resolve_synonyms", <<Line(item, quality, 0)>>,
                                   "none", resolve_synonyms(item, quality))
        /\ UNCHANGED <<inventory, inventory_issues, ledgerVars>>

NextResolve == Update \/ Resolve

SpecResolve == InitInventory /\ [][NextResolve]_vars

-----------------------------------------------------------------------------
(* BotService: the handling of one message at a time *)

\* an extracted payload with neither sales nor expenses
Nothing == Extracted(<<>>, <<>>, NoneNum, "None", "None")

BotPayloads == {CashSale, TransferSale, Expense, Nothing}

\* log_to_bigquery(log_entry): outcome is what insert_rows_json does: "ok",
\* "errors" (row-level errors, printed) or "raised" (the client raises)
log_to_bigquery(log, log_entry, outcome) ==
    [audit_logs |-> IF outcome = "ok" THEN Append(log, log_entry) ELSE log,
     raised |-> IF outcome = "raised" THEN "BigQueryError" ELSE "none"]

LogEntry(operation_type, transaction_id) ==
    [operation_type |-> operation_type, transaction_id |-> transaction_id]

\* _notify_error: the messages it sends (none when developerID is not set)
notify_error ==
    IF config.developerID THEN {"developer_error_report", "generic_error"} ELSE {}

\* the handler's locals when a message arrives
Locals(handler, structured_data) ==
    [handler |-> handler, structured_data |-> structured_data,
     insert_errors |-> FALSE, raised_at |-> "none"]

Snapshot ==
    [ledger |-> ledger, inventory |-> inventory,
     inventory_issues |-> inventory_issues, inventory_loss |-> inventory_loss,
     audit_logs |-> audit_logs]

\* the buggy variant: the handler goes on after a failed insert
after_insert_no_return(raised, structured_data) ==
    IF structured_data.sales # <<>> THEN "deduct_inventory" ELSE "log_to_bigquery"

\* where _handle_data_insert goes after insert_to_bigquery (lines 294-308)
after_insert(raised, structured_data) ==
    IF raised # "none" THEN "idle"
    ELSE IF structured_data.sales # <<>> THEN "deduct_inventory"
    ELSE "log_to_bigquery"

storeVars == <<inventory_loss, today, is_deleted_default, last, config>>

\* line 284 with the test of the expenses left out
no_sale(structured_data) ==
    structured_data.sales = <<>>

\* line 284: not structured_data.get("sales") and not structured_data.get("expenses")
no_sale_or_expense(structured_data) ==
    structured_data.sales = <<>> /\ structured_data.expenses = <<>>

\* handle_message for an allowed user and a text that is no command:
\* _handle_data_insert up to the setdefault of the date (lines 281-293)
DataInsertReceiveOf(payloads) ==
    /\ pc = "idle"
    /\ next_uuid <= MaxUuid
    /\ snap' = Snapshot
    /\ \/ \* the extractor raises, or its output is not JSON
          /\ msg' = [Locals("data_insert", Nothing) EXCEPT
                        !.raised_at = "interpret_message_with_gpt"]
          /\ sent' = notify_error
          /\ pc' = "idle"
       \/ \E payload \in payloads :
            IF no_sale_or_expense(payload)
            THEN /\ msg' = Locals("data_insert", payload)
                 /\ sent' = {"no_sale_or_expense"}
                 /\ pc' = "idle"
            ELSE /\ msg' = Locals("data_insert", setdefault(payload, "date", today))
                 /\ sent' = {}
                 /\ pc' = "insert_to_bigquery"
    /\ UNCHANGED <<ledger, audit_logs, inventory, inventory_issues, next_uuid,
                   deducted, storeVars>>

DataInsertReceive == DataInsertReceiveOf(BotPayloads)

\* lines 294-306
DataInsertInsert ==
    /\ pc = "insert_to_bigquery"
    /\ msg.handler = "data_insert"
    /\ \E errors \in BOOLEAN :
        \E res \in {insert_to_bigquery(ledger, msg.structured_data, next_uuid, errors)} :
            /\ ledger' = res.ledger
            /\ next_uuid' = next_uuid + 1
            /\ msg' = [msg EXCEPT !.structured_data = res.row,
                                  !.insert_errors = errors,
                                  !.raised_at = IF res.raised # "none"
                                                THEN "insert_to_bigquery" ELSE "none"]
            /\ pc' = after_insert(res.raised, res.row)
            /\ sent' = IF res.raised # "none" THEN notify_error ELSE sent
    /\ UNCHANGED <<audit_logs, inventory, inventory_issues, deducted, snap, storeVars>>

\* lines 308-317: the deduction, and the owner's message about its issues
DataInsertDeduct ==
    /\ pc = "deduct_inventory"
    /\ msg.handler = "data_insert"
    /\ \E fails_at \in 0..(Len(msg.structured_data.sales) + 1), delivered \in BOOLEAN :
        \E res \in {deduct_inventory(inventory, inventory_issues, msg.structured_data.sales,
                                     msg.structured_data.transaction_id, fails_at)} :
            /\ inventory' = res.inventory
            /\ inventory_issues' = res.inventory_issues
            /\ deducted' = deducted \cup
                    {<<msg.structured_data.transaction_id, res.written[n]>> :
                        n \in 1..Len(res.written)}
            /\ IF res.raised # "none"
               THEN /\ msg' = [msg EXCEPT !.raised_at = "deduct_inventory"]
                    /\ sent' = notify_error
                    /\ pc' = "idle"
               ELSE IF res.returned # <<>> /\ ~delivered
               THEN /\ msg' = [msg EXCEPT !.raised_at = "send_message"]
                    /\ sent' = notify_error
                    /\ pc' = "idle"
               ELSE /\ msg' = msg
                    /\ sent' = IF res.returned # <<>>
                               THEN sent \cup {"owner_inventory_issues"} ELSE sent
                    /\ pc' = "log_to_bigquery"
    /\ UNCHANGED <<ledger, audit_logs, next_uuid, snap, storeVars>>

\* lines 319-328
DataInsertLog ==
    /\ pc = "log_to_bigquery"
    /\ msg.handler = "data_insert"
    /\ \E outcome \in {"ok", "errors", "raised"} :
        \E res \in {log_to_bigquery(audit_logs,
                        LogEntry("data_insert", msg.structured_data.transaction_id),
                        outcome)} :
            /\ audit_logs' = res.audit_logs
            /\ IF res.raised # "none"
               THEN /\ msg' = [msg EXCEPT !.raised_at = "log_to_bigquery"]
                    /\ sent' = notify_error
                    /\ pc' = "idle"
               ELSE /\ msg' = msg
                    /\ sent' = sent
                    /\ pc' = "reply"
    /\ UNCHANGED <<ledger, inventory, inventory_issues, next_uuid, deducted, snap,
                   storeVars>>

\* lines 330-351: the summary with the confirmation, the transaction id, and
\* the owner's notification (whose failure is caught)
DataInsertReply ==
    /\ pc = "reply"
    /\ msg.handler = "data_insert"
    /\ \E delivered \in 0..2, notified \in BOOLEAN :
        /\ sent' = sent
                   \cup (IF delivered >= 1 THEN {"confirmation"} ELSE {})
                   \cup (IF delivered = 2 THEN {"transaction_id"} ELSE {})
                   \cup (IF delivered < 2 THEN notify_error ELSE {})
                   \cup (IF delivered = 2 /\ config.liveNotifications /\ notified
                         THEN {"owner_notification"} ELSE {})
        /\ msg' = [msg EXCEPT !.raised_at = IF delivered < 2 THEN "send_message" ELSE @]
    /\ pc' = "idle"
    /\ UNCHANGED <<ledger, audit_logs, inventory, inventory_issues, next_uuid,
                   deducted, snap, storeVars>>

\* the shop has stock of rosa/regular; developerID and liveNotifications are
\* set or not
InitBot ==
    /\ ledger = <<>>
    /\ audit_logs = <<>>
    /\ inventory = ("rosa_regular" :> 3)
    /\ inventory_issues = <<>>
    /\ inventory_loss = <<>>
    /\ today = 1
    /\ is_deleted_default \in {"None", "FALSE"}
    /\ next_uuid = 1
    /\ last = NoCall
    /\ pc = "idle"
    /\ msg = Locals("none", Nothing)
    /\ sent = {}
    /\ deducted = {}
    /\ snap = Snapshot
    /\ config \in [developerID : BOOLEAN, liveNotifications : BOOLEAN]

NextBot ==
    \/ DataInsertReceive
    \/ DataInsertInsert
    \/ DataInsertDeduct
    \/ DataInsertLog
    \/ DataInsertReply

SpecBot == InitBot /\ [][NextBot]_vars

-----------------------------------------------------------------------------
(* BotService: the commands eliminar, editar and cierre *)

\* The text of a message is the sequence of its words, so message.split() is
\* the message itself.  A transaction_id is typed as the second word.
DeleteTexts ==
    { <<"eliminar", "1">>, <<"eliminar", "1", "mila">>, <<"eliminar", "2", "mila">>,
      <<"eliminar", "1", "mila", "ya">> }

EditTexts ==
    { <<"editar", "1">>, <<"editar", "1", "gasto">>, <<"editar", "2", "dos", "rosas">> }

ClosureTexts == { <<"cierre">>, <<"cierre", "mila">>, <<"cierre", "mila", "hoy">> }

\* " ".join(words)
RECURSIVE join(_)
join(words) ==
    IF Len(words) = 1 THEN words[1] ELSE words[1] \o " " \o join(Tail(words))

\* message.split(maxsplit=2): at most three parts, the third is the rest
split_maxsplit_2(message) ==
    IF Len(message) <= 2 THEN message
    ELSE <<message[1], message[2], join(SubSeq(message, 3, Len(message)))>>

\* the uuid a typed word spells (uuids are numbers in the model)
uuid_of(word) ==
    CASE word = "1" -> 1
      [] word = "2" -> 2
      [] OTHER -> Missing

\* the buggy variant: only a command that is too short is rejected
malformed_delete_when_short(parts) == Len(parts) < 3

\* _handle_delete: if len(parts) != 3
malformed_delete(parts) == Len(parts) # 3

\* _handle_edit: if len(parts) != 3, on the parts of split(maxsplit=2)
malformed_edit(parts) == Len(parts) # 3

\* _handle_closure_report: if len(parts) != 2
malformed_closure(parts) == Len(parts) # 2

\* the locals of a command handler when its message arrives; accessed is
\* history: the stores the handler has read or written so far
CommandLocals(handler, message) ==
    [handler |-> handler, message |-> message, transaction_id |-> Missing,
     transaction |-> <<>>, new_data |-> Nothing, raised_at |-> "none",
     accessed |-> {}, done |-> FALSE, undo_of |-> <<>>, summary |-> <<>>]

\* history: the handler that just ended stored a sale and deducted every line
\* of it from stock that covered it
InsertDeducted ==
    /\ msg.handler = "data_insert"
    /\ msg.structured_data.sales # <<>>
    /\ Len(ledger) = Len(snap.ledger) + 1
    /\ msg.raised_at # "deduct_inventory"
    /\ inventory_issues = snap.inventory_issues

\* the buggy variant: nothing is restored
restore_sales_skipped(inv, sales, done) == [inventory |-> inv, raised |-> "none"]

\* for sale in transaction["sales"]: restore_inventory(item,
\* sale.get("quality", "regular"), sale.get("quantity", 0)); the Firestore
\* client fails after `done` lines when done < len(sales)
RECURSIVE restore_sales(_, _, _)
restore_sales(inv, sales, done) ==
    IF sales = <<>> THEN [inventory |-> inv, raised |-> "none"]
    ELSE IF done = 0 THEN [inventory |-> inv, raised |-> "FirestoreError"]
    ELSE LET sale == Head(sales)
             res == restore_inventory(inv, sale.item, sale.quality, sale.quantity)
         IN  IF res.raised # "none" THEN res
             ELSE restore_sales(res.inventory, Tail(sales), done - 1)

\* the two confirmations, the audit entry and the owner's notification that
\* end _handle_delete and _handle_edit: what is sent, what is logged, and
\* where an exception came from
Finish(reply, operation_type, transaction_id, delivered, outcome, notified) ==
    LET log == IF delivered = 2
               THEN log_to_bigquery(audit_logs, LogEntry(operation_type, transaction_id),
                                    outcome)
               ELSE [audit_logs |-> audit_logs, raised |-> "none"]
        raised_at == IF delivered < 2 THEN "send_message"
                     ELSE IF log.raised # "none" THEN "log_to_bigquery"
                     ELSE "none"
    IN  [sent |-> (IF delivered >= 1 THEN {reply} ELSE {})
                  \cup (IF delivered = 2 THEN {"transaction_id"} ELSE {})
                  \cup (IF raised_at # "none" THEN notify_error ELSE {})
                  \cup (IF raised_at = "none" /\ config.liveNotifications /\ notified
                        THEN {"owner_notification"} ELSE {}),
         audit_logs |-> log.audit_logs,
         accessed |-> IF delivered = 2 THEN {"audit_logs"} ELSE {},
         raised_at |-> raised_at]

commandVars == <<inventory_loss, today, is_deleted_default, next_uuid, last, deducted,
                 config>>

\* _handle_delete, lines 78-87: the shape of the command
DeleteReceive ==
    /\ pc = "idle"
    /\ Len(audit_logs) < MaxLogs
    /\ snap' = Snapshot
    /\ \E message \in DeleteTexts, delivered \in BOOLEAN :
        IF malformed_delete(message)
        THEN /\ msg' = CommandLocals("delete", message)
             /\ sent' = IF delivered THEN {"format_eliminar"} ELSE {}
             /\ pc' = "idle"
        ELSE /\ delivered
             /\ msg' = [CommandLocals("delete", message) EXCEPT
                           !.transaction_id = uuid_of(message[2]),
                           !.undo_of = IF InsertDeducted
                                       THEN <<[transaction_id |->
                                                  msg.structured_data.transaction_id,
                                               inventory |-> snap.inventory]>>
                                       ELSE <<>>]
             /\ sent' = {}
             /\ pc' = "get_transaction_by_id"
    /\ UNCHANGED <<ledger, audit_logs, inventory, inventory_issues, commandVars>>

\* lines 88-100: the lookup of the live row
DeleteLookup ==
    /\ pc = "get_transaction_by_id"
    /\ msg.handler = "delete"
    /\ \E i \in Picks(GetMatches(ledger, msg.transaction_id)), raises \in BOOLEAN :
        LET transaction == get_transaction_by_id(ledger, i)
        IN  /\ msg' = [msg EXCEPT !.transaction = IF raises THEN <<>> ELSE transaction,
                                  !.accessed = @ \cup {"ledger"},
                                  !.raised_at = IF raises THEN "get_transaction_by_id"
                                                ELSE "none"]
            /\ sent' = IF raises THEN notify_error
                       ELSE IF transaction = <<>> THEN {"not_found"}
                       ELSE sent
            /\ pc' = IF raises \/ transaction = <<>> THEN "idle"
                     ELSE IF transaction[1].sales # <<>> THEN "restore_inventory"
                     ELSE "safe_delete"
    /\ UNCHANGED <<ledger, audit_logs, inventory, inventory_issues, snap, commandVars>>

\* lines 102-107: one restore per sale line of the row found
DeleteRestore ==
    /\ pc = "restore_inventory"
    /\ msg.handler = "delete"
    /\ \E done \in 0..Len(msg.transaction[1].sales) :
        \E res \in {restore_sales(inventory, msg.transaction[1].sales, done)} :
            /\ \A doc \in DOMAIN res.inventory : res.inventory[doc] <= MaxStock
            /\ inventory' = res.inventory
            /\ msg' = [msg EXCEPT !.accessed = @ \cup {"inventory"},
                                  !.raised_at = IF res.raised # "none"
                                                THEN "restore_inventory" ELSE "none"]
            /\ sent' = IF res.raised # "none" THEN notify_error ELSE sent
            /\ pc' = IF res.raised # "none" THEN "idle" ELSE "safe_delete"
    /\ UNCHANGED <<ledger, audit_logs, inventory_issues, snap, commandVars>>

\* line 109: the tombstone
DeleteSafeDelete ==
    /\ pc = "safe_delete"
    /\ msg.handler = "delete"
    /\ Len(ledger) < MaxRows
    /\ \E i \in Picks(LiveMatches(ledger, msg.transaction_id)), errors \in BOOLEAN :
        \E res \in {safe_delete(ledger, msg.transaction_id, i, today, next_uuid, errors)} :
            /\ ledger' = res.ledger
            /\ msg' = [msg EXCEPT !.done = res.raised = "none",
                                  !.raised_at = IF res.raised # "none"
                                                THEN "safe_delete" ELSE "none"]
            /\ sent' = IF res.raised # "none" THEN notify_error ELSE sent
            /\ pc' = IF res.raised # "none" THEN "idle" ELSE "delete_reply"
    /\ UNCHANGED <<audit_logs, inventory, inventory_issues, snap, commandVars>>

\* lines 110-141: the confirmations, the audit entry, the notification
DeleteReply ==
    /\ pc = "delete_reply"
    /\ \E delivered \in 0..2, outcome \in {"ok", "errors", "raised"}, notified \in BOOLEAN :
        \E res \in {Finish("deleted", "delete_transaction", msg.transaction_id,
                           delivered, outcome, notified)} :
            /\ sent' = sent \cup res.sent
            /\ audit_logs' = res.audit_logs
            /\ msg' = [msg EXCEPT !.accessed = @ \cup res.accessed,
                                  !.raised_at = res.raised_at]
    /\ pc' = "idle"
    /\ UNCHANGED <<ledger, inventory, inventory_issues, snap, commandVars>>

\* _handle_edit, lines 154-165: the shape of the command, then the extractor
EditReceive ==
    /\ pc = "idle"
    /\ Len(audit_logs) < MaxLogs
    /\ snap' = Snapshot
    /\ \E message \in EditTexts, delivered \in BOOLEAN :
        IF malformed_edit(split_maxsplit_2(message))
        THEN /\ msg' = CommandLocals("edit", message)
             /\ sent' = IF delivered THEN {"format_editar"} ELSE {}
             /\ pc' = "idle"
        ELSE /\ delivered
             /\ \/ \* the extractor raises, or its output is not JSON
                   /\ msg' = [CommandLocals("edit", message) EXCEPT
                                 !.transaction_id = uuid_of(message[2]),
                                 !.raised_at = "interpret_message_with_gpt"]
                   /\ sent' = notify_error
                   /\ pc' = "idle"
                \/ \E new_data \in EditPayloads :
                   /\ msg' = [CommandLocals("edit", message) EXCEPT
                                 !.transaction_id = uuid_of(message[2]),
                                 !.new_data = new_data]
                   /\ sent' = {}
                   /\ pc' = "safe_edit"
    /\ UNCHANGED <<ledger, audit_logs, inventory, inventory_issues, commandVars>>

\* line 166: safe_edit, and nothing on the inventory; transaction records the
\* row safe_edit found (history)
EditSafeEdit ==
    /\ pc = "safe_edit"
    /\ msg.handler = "edit"
    /\ Len(ledger) + 2 <= MaxRows
    /\ \E i \in Picks(LiveMatches(ledger, msg.transaction_id)),
          errors1 \in BOOLEAN, errors2 \in BOOLEAN :
        \E res \in {safe_edit(ledger, msg.transaction_id, msg.new_data, i, today,
                              next_uuid, errors1, errors2)} :
            /\ ledger' = res.ledger
            /\ msg' = [msg EXCEPT !.done = res.raised = "none",
                                  !.new_data = res.row,
                                  !.transaction = IF i = 0 THEN <<>> ELSE <<ledger[i]>>,
                                  !.accessed = @ \cup {"ledger"},
                                  !.raised_at = IF res.raised # "none"
                                                THEN "safe_edit" ELSE "none"]
            /\ sent' = IF res.raised # "none" THEN notify_error ELSE sent
            /\ pc' = IF res.raised # "none" THEN "idle" ELSE "edit_reply"
    /\ UNCHANGED <<audit_logs, inventory, inventory_issues, snap, commandVars>>

\* lines 167-199
EditReply ==
    /\ pc = "edit_reply"
    /\ \E delivered \in 0..2, outcome \in {"ok", "errors", "raised"}, notified \in BOOLEAN :
        \E res \in {Finish("updated", "edit_transaction", msg.new_data.transaction_id,
                           delivered, outcome, notified)} :
            /\ sent' = sent \cup res.sent
            /\ audit_logs' = res.audit_logs
            /\ msg' = [msg EXCEPT !.accessed = @ \cup res.accessed,
                                  !.raised_at = res.raised_at]
    /\ pc' = "idle"
    /\ UNCHANGED <<ledger, inventory, inventory_issues, snap, commandVars>>

\* _handle_closure_report, lines 212-219: the shape of the command
ClosureReceive ==
    /\ pc = "idle"
    /\ Len(audit_logs) < MaxLogs
    /\ snap' = Snapshot
    /\ \E message \in ClosureTexts, delivered \in BOOLEAN :
        IF malformed_closure(message)
        THEN /\ msg' = CommandLocals("closure", message)
             /\ sent' = IF delivered THEN {"format_cierre"} ELSE {}
             /\ pc' = "idle"
        ELSE /\ delivered
             /\ msg' = CommandLocals("closure", message)
             /\ sent' = {}
             /\ pc' = "get_closure_report_by_date"
    /\ UNCHANGED <<ledger, audit_logs, inventory, inventory_issues, commandVars>>

\* the buggy variant: the transfers are counted as cash on hand
closure_summary_all_sales(report) ==
    LET efectivo_sales == IF report.efectivo_sales # NoneNum
                          THEN report.efectivo_sales ELSE 0
        transfer_sales == IF report.transfer_sales # NoneNum
                          THEN report.transfer_sales ELSE 0
        total_expenses == IF report.total_expenses # NoneNum
                          THEN report.total_expenses ELSE 0
    IN  [transfer_sales |-> transfer_sales,
         efectivo_sales |-> efectivo_sales,
         total_expenses |-> total_expenses,
         total_cash_on_hand |-> efectivo_sales + transfer_sales - total_expenses]

\* lines 231-241: the four amounts of the summary; `x if x is not None else 0`
\* for each aggregate, and efectivo_sales - total_expenses
closure_summary(report) ==
    LET efectivo_sales == IF report.efectivo_sales # NoneNum
                          THEN report.efectivo_sales ELSE 0
        transfer_sales == IF report.transfer_sales # NoneNum
                          THEN report.transfer_sales ELSE 0
        total_expenses == IF report.total_expenses # NoneNum
                          THEN report.total_expenses ELSE 0
    IN  [transfer_sales |-> transfer_sales,
         efectivo_sales |-> efectivo_sales,
         total_expenses |-> total_expenses,
         total_cash_on_hand |-> efectivo_sales - total_expenses]

\* lines 221-267: the report of today, its summary, the audit entry and the
\* notification
ClosureReport ==
    /\ pc = "get_closure_report_by_date"
    /\ msg.handler = "closure"
    /\ \E raises \in BOOLEAN, delivered \in BOOLEAN,
          outcome \in {"ok", "errors", "raised"}, notified \in BOOLEAN :
        LET log == IF ~raises /\ delivered
                   THEN log_to_bigquery(audit_logs, LogEntry("closure_report", NoneNum),
                                        outcome)
                   ELSE [audit_logs |-> audit_logs, raised |-> "none"]
            raised_at == IF raises THEN "get_closure_report_by_date"
                         ELSE IF ~delivered THEN "send_message"
                         ELSE IF log.raised # "none" THEN "log_to_bigquery"
                         ELSE "none"
        IN  /\ audit_logs' = log.audit_logs
            /\ msg' = [msg EXCEPT
                          !.transaction = IF raises THEN <<>>
                                          ELSE <<get_closure_report_by_date(ledger, today)>>,
                          !.accessed = {"ledger"} \cup
                                       (IF ~raises /\ delivered THEN {"audit_logs"} ELSE {}),
                          !.done = ~raises /\ delivered,
                          !.summary = IF ~raises /\ delivered
                                      THEN <<closure_summary(
                                               get_closure_report_by_date(ledger, today))>>
                                      ELSE <<>>,
                          !.raised_at = raised_at]
            /\ sent' = (IF ~raises /\ delivered THEN {"closure_summary"} ELSE {})
                       \cup (IF raised_at # "none" THEN notify_error ELSE {})
                       \cup (IF raised_at = "none" /\ config.liveNotifications /\ notified
                             THEN {"owner_notification"} ELSE {})
    /\ pc' = "idle"
    /\ UNCHANGED <<ledger, inventory, inventory_issues, snap, commandVars>>

\* the shop has stock of rosa/regular and of rosa/special, which the alias
\* "Rosa Ecuador" resolves to; developerID is set, liveNotifications is not
InitDelete ==
    /\ ledger = <<>>
    /\ audit_logs = <<>>
    /\ inventory = ("rosa_regular" :> 3) @@ ("rosa_special" :> 1)
    /\ inventory_issues = <<>>
    /\ inventory_loss = <<>>
    /\ today = 1
    /\ is_deleted_default \in {"None", "FALSE"}
    /\ next_uuid = 1
    /\ last = NoCall
    /\ pc = "idle"
    /\ msg = Locals("none", Nothing)
    /\ sent = {}
    /\ deducted = {}
    /\ snap = Snapshot
    /\ config = [developerID |-> TRUE, liveNotifications |-> FALSE]

\* the messages of sales
SalePayloads == {CashSale, TransferSale}

\* the uuids a delete command of the model can name
DeletableIds ==
    {uuid_of(message[2]) : message \in {m \in DeleteTexts : ~malformed_delete(m)}}

\* a sale is taken while the uuid it will get can be named in a command
DataInsertSale ==
    /\ next_uuid \in DeletableIds
    /\ DataInsertReceiveOf(SalePayloads)

\* new sales and their deletion
NextDelete ==
    \/ DataInsertSale
    \/ DataInsertInsert
    \/ DataInsertDeduct
    \/ DataInsertLog
    \/ DataInsertReply
    \/ DeleteReceive
    \/ DeleteLookup
    \/ DeleteRestore
    \/ DeleteSafeDelete
    \/ DeleteReply

SpecDelete == InitDelete /\ [][NextDelete]_vars

\* the state after the message of CashSale was handled with stock 3 of
\* rosa/regular: its row is in the ledger under uuid 1, its 2 units are
\* deducted, its audit entry is written
InitCommands ==
    /\ today = 1
    /\ is_deleted_default \in {"None", "FALSE"}
    /\ ledger = insert_to_bigquery(<<>>, setdefault(CashSale, "date", today), 1,
                                   FALSE).ledger
    /\ audit_logs = <<LogEntry("data_insert", 1)>>
    /\ inventory = ("rosa_regular" :> 1)
    /\ inventory_issues = <<>>
    /\ inventory_loss = <<>>
    /\ next_uuid = 2
    /\ last = NoCall
    /\ pc = "idle"
    /\ msg = Locals("none", Nothing)
    /\ sent = {}
    /\ deducted = {<<1, "rosa_regular">>}
    /\ snap = Snapshot
    /\ config = [developerID |-> TRUE, liveNotifications |-> TRUE]

\* the commands on the transactions stored so far
NextCommands ==
    \/ DeleteReceive
    \/ DeleteLookup
    \/ DeleteRestore
    \/ DeleteSafeDelete
    \/ DeleteReply
    \/ EditReceive
    \/ EditSafeEdit
    \/ EditReply
    \/ ClosureReceive
    \/ ClosureReport

SpecCommands == InitCommands /\ [][NextCommands]_vars

-----------------------------------------------------------------------------
(* BotService: messages of users that are not allowed *)

\* Telegram user ids; allowed_users holds the first only
UserIds == {1, 2}

allowed_users == {1}

\* texts of the other kinds: a bulk load, a loss, a sale
OtherTexts ==
    { <<"inventario:", "3", "rosas">>, <<"perdida:", "1", "rosa">>, <<"2", "rosas", "mila">> }

AccessTexts == DeleteTexts \cup EditTexts \cup ClosureTexts \cup OtherTexts

\* handle_message, lines 45-61: the handler a message is given to.  The
\* texts of the model are lower case and a command is their first word.
handle_message(user_id, message) ==
    IF user_id \notin allowed_users THEN "unauthorized_access"
    ELSE CASE message[1] = "eliminar" -> "delete"
           [] message[1] = "editar" -> "edit"
           [] message[1] = "cierre" -> "closure"
           [] message[1] = "inventario:" -> "inventory_update"
           [] message[1] = "perdida:" -> "inventory_loss"
           [] OTHER -> "data_insert"

\* the buggy variant: no return after _handle_unauthorized_access, a delete
\* command goes on to the lookup
after_unauthorized_no_return(message) ==
    IF message[1] = "eliminar" /\ ~malformed_delete(message)
    THEN "get_transaction_by_id" ELSE "idle"

\* line 47: return
after_unauthorized(message) == "idle"

\* _handle_unauthorized_access, lines 63-76: the reply with the user's id,
\* then the audit entry; an exception of either leaves the handler
Unauthorized ==
    /\ pc = "idle"
    /\ Len(audit_logs) < MaxLogs
    /\ snap' = Snapshot
    /\ \E user_id \in UserIds, message \in AccessTexts, delivered \in BOOLEAN,
          outcome \in {"ok", "errors", "raised"} :
        LET log == IF delivered
                   THEN log_to_bigquery(audit_logs,
                                        LogEntry("unauthorized_access", NoneNum), outcome)
                   ELSE [audit_logs |-> audit_logs, raised |-> "none"]
        IN  /\ handle_message(user_id, message) = "unauthorized_access"
            /\ audit_logs' = log.audit_logs
            /\ msg' = [CommandLocals("unauthorized_access", message) EXCEPT
                          !.accessed = IF delivered THEN {"audit_logs"} ELSE {},
                          !.done = delivered /\ outcome = "ok",
                          !.raised_at = IF ~delivered THEN "send_message"
                                        ELSE IF log.raised # "none" THEN "log_to_bigquery"
                                        ELSE "none"]
            /\ sent' = IF delivered THEN {"your_user_id"} ELSE {}
            /\ pc' = after_unauthorized(message)
    /\ UNCHANGED <<ledger, inventory, inventory_issues, commandVars>>

\* the delete commands of the allowed user and the messages of the other
NextAccess ==
    \/ DeleteReceive
    \/ DeleteLookup
    \/ DeleteRestore
    \/ DeleteSafeDelete
    \/ DeleteReply
    \/ Unauthorized

SpecAccess == InitCommands /\ [][NextAccess]_vars

-----------------------------------------------------------------------------
(* BotService: the closure command after the messages of the day *)

\* the new-transaction handler on the payloads of the report
DataInsertReport == DataInsertReceiveOf(ReportPayloads)

\* a cash sale of the day before is in the ledger under uuid 0
InitClosure ==
    /\ today = MaxDay
    /\ is_deleted_default = "FALSE"
    /\ ledger = insert_to_bigquery(<<>>, setdefault(CashSale, "date", MaxDay - 1), 0,
                                   FALSE).ledger
    /\ audit_logs = <<>>
    /\ inventory = ("rosa_regular" :> 1)
    /\ inventory_issues = <<>>
    /\ inventory_loss = <<>>
    /\ next_uuid = 1
    /\ last = NoCall
    /\ pc = "idle"
    /\ msg = Locals("none", Nothing)
    /\ sent = {}
    /\ deducted = {}
    /\ snap = Snapshot
    /\ config = [developerID |-> TRUE, liveNotifications |-> TRUE]

NextClosure ==
    \/ DataInsertReport
    \/ DataInsertInsert
    \/ DataInsertDeduct
    \/ DataInsertLog
    \/ DataInsertReply
    \/ ClosureReceive
    \/ ClosureReport

SpecClosure == InitClosure /\ [][NextClosure]_vars

-----------------------------------------------------------------------------
(* BotService: the command perdida: *)

\* transaction_id="PERDIDA" of the deductions of a loss (line 420)
PERDIDA == -97

LossTexts == { <<"perdida:", "1", "rosa">>, <<"perdida:", "2", "rosas", "y", "1", "especial">> }

\* the entries the bulk extractor may return: quantity is an integer
LossLines ==
    { Line("rosa", "regular", 1), Line("rosa", "regular", MaxQty),
      Line("rosa", "special", 1) }

\* json.loads(gpt_response).get("inventory", []): no entry, one or two
LossEntries ==
    {<<>>} \cup {<<a>> : a \in LossLines} \cup {<<a, b>> : a, b \in LossLines}

\* the document log_inventory_loss adds for one entry
LossDoc(entry) ==
    [item |-> entry.item, quality |-> entry.quality, quantity |-> entry.quantity]

\* the locals of _handle_inventory_loss; n is the entry the loop is at
LossLocals(message, inventory_entries) ==
    [handler |-> "inventory_loss", message |-> message,
     inventory_entries |-> inventory_entries, n |-> 1, issues |-> <<>>,
     raised_at |-> "none", done |-> FALSE]

\* the buggy variant: an entry whose deduction returned an issue is not logged
loss_entry_unlogged_on_issue(st, entry, fails_at, add_fails) ==
    LET res == deduct_inventory(st.inventory, st.inventory_issues,
                                <<Line(entry.item, entry.quality, entry.quantity)>>,
                                PERDIDA, fails_at)
    IN  IF res.raised # "none"
        THEN [st EXCEPT !.inventory = res.inventory, !.raised_at = "deduct_inventory"]
        ELSE IF add_fails
        THEN [st EXCEPT !.inventory = res.inventory,
                        !.inventory_issues = res.inventory_issues,
                        !.issues = @ \o res.returned,
                        !.raised_at = "log_inventory_loss"]
        ELSE [st EXCEPT !.inventory = res.inventory,
                        !.inventory_issues = res.inventory_issues,
                        !.issues = @ \o res.returned,
                        !.inventory_loss = IF res.returned = <<>>
                                           THEN Append(@, LossDoc(entry)) ELSE @]

\* the body of the loop of lines 414-433 for one entry, from the state
\* st = [inventory, inventory_issues, inventory_loss, issues, raised_at]:
\* deduct_inventory of the one line, issues.extend, log_inventory_loss.
\* fails_at is that of deduct_inventory; add_fails: the add of the loss raises
loss_entry(st, entry, fails_at, add_fails) ==
    LET res == deduct_inventory(st.inventory, st.inventory_issues,
                                <<Line(entry.item, entry.quality, entry.quantity)>>,
                                PERDIDA, fails_at)
    IN  IF res.raised # "none"
        THEN [st EXCEPT !.inventory = res.inventory, !.raised_at = "deduct_inventory"]
        ELSE IF add_fails
        THEN [st EXCEPT !.inventory = res.inventory,
                        !.inventory_issues = res.inventory_issues,
                        !.issues = @ \o res.returned,
                        !.raised_at = "log_inventory_loss"]
        ELSE [st EXCEPT !.inventory = res.inventory,
                        !.inventory_issues = res.inventory_issues,
                        !.issues = @ \o res.returned,
                        !.inventory_loss = Append(@, LossDoc(entry))]

lossVars == <<today, is_deleted_default, next_uuid, last, deducted, config>>

\* _handle_inventory_loss, lines 398-409: the extraction and the empty list
LossReceive ==
    /\ pc = "idle"
    /\ Len(audit_logs) < MaxLogs
    /\ Len(inventory_loss) < MaxLoss
    /\ Len(inventory_issues) <= MaxIssues
    /\ snap' = Snapshot
    /\ \E message \in LossTexts :
        \/ \* the extractor raises, or its output is not JSON
           /\ msg' = [LossLocals(message, <<>>) EXCEPT
                         !.raised_at = "interpret_bulk_inventory_with_gpt"]
           /\ sent' = notify_error
           /\ pc' = "idle"
        \/ \E inventory_entries \in LossEntries, delivered \in BOOLEAN :
             IF inventory_entries = <<>>
             THEN /\ msg' = [LossLocals(message, inventory_entries) EXCEPT
                                !.raised_at = IF delivered THEN "none"
                                              ELSE "send_message"]
                  /\ sent' = IF delivered THEN {"no_loss_entries"} ELSE notify_error
                  /\ pc' = "idle"
             ELSE /\ delivered
                  /\ msg' = LossLocals(message, inventory_entries)
                  /\ sent' = {}
                  /\ pc' = "deduct_loss"
    /\ UNCHANGED <<ledger, audit_logs, inventory, inventory_issues, inventory_loss,
                   lossVars>>

\* lines 414-433: one pass of the loop
LossEntry ==
    /\ pc = "deduct_loss"
    /\ msg.handler = "inventory_loss"
    /\ \E fails_at \in 0..2, add_fails \in BOOLEAN :
        \E st \in {loss_entry([inventory |-> inventory,
                               inventory_issues |-> inventory_issues,
                               inventory_loss |-> inventory_loss,
                               issues |-> msg.issues, raised_at |-> "none"],
                              msg.inventory_entries[msg.n], fails_at, add_fails)} :
            /\ inventory' = st.inventory
            /\ inventory_issues' = st.inventory_issues
            /\ inventory_loss' = st.inventory_loss
            /\ msg' = [msg EXCEPT !.issues = st.issues,
                                  !.raised_at = st.raised_at,
                                  !.n = IF st.raised_at = "none" THEN @ + 1 ELSE @]
            /\ sent' = IF st.raised_at # "none" THEN notify_error ELSE sent
            /\ pc' = IF st.raised_at # "none" THEN "idle"
                     ELSE IF msg.n = Len(msg.inventory_entries) THEN "log_loss"
                     ELSE "deduct_loss"
    /\ UNCHANGED <<ledger, audit_logs, snap, lossVars>>

\* lines 435-462: the audit entry, the confirmation with the number of
\* entries, the owner's message about the issues and the notification
LossReply ==
    /\ pc = "log_loss"
    /\ msg.handler = "inventory_loss"
    /\ \E outcome \in {"ok", "errors", "raised"}, delivered \in 0..2,
          notified \in BOOLEAN :
        LET log == log_to_bigquery(audit_logs, LogEntry("inventory_loss", NoneNum),
                                   outcome)
            raised_at == IF log.raised # "none" THEN "log_to_bigquery"
                         ELSE IF delivered = 0 THEN "send_message"
                         ELSE IF delivered = 1 /\ msg.issues # <<>> THEN "send_message"
                         ELSE "none"
        IN  /\ audit_logs' = log.audit_logs
            /\ msg' = [msg EXCEPT !.raised_at = raised_at,
                                  !.done = raised_at = "none"]
            /\ sent' = (IF log.raised = "none" /\ delivered >= 1
                        THEN {"loss_confirmation"} ELSE {})
                       \cup (IF raised_at = "none" /\ msg.issues # <<>>
                             THEN {"loss_issues"} ELSE {})
                       \cup (IF raised_at # "none" THEN notify_error ELSE {})
                       \cup (IF raised_at = "none" /\ config.liveNotifications /\ notified
                             THEN {"owner_notification"} ELSE {})
            /\ pc' = "idle"
    /\ UNCHANGED <<ledger, inventory, inventory_issues, inventory_loss, snap, lossVars>>

NextLoss == LossReceive \/ LossEntry \/ LossReply

SpecLoss == InitCommands /\ [][NextLoss]_vars

-----------------------------------------------------------------------------
(* Overlapping invocations: deduct_inventory step by step *)

\* Each inbound message is its own invocation of the service; two of them
\* share nothing but the stores.  pc and msg hold one entry per invocation.
Invocations == {1, 2}

RaceDoc == document("rosa", "regular")

RaceLines == {Line("rosa", "regular", n) : n \in 1..MaxQty}

RaceLocals(sale) == [sale |-> sale, inventory_qty |-> Missing, issues |-> <<>>]

\* the buggy variant: the quantity is read again when it is written, as a
\* Firestore transaction would
set_quantity_in_transaction(inv, doc, inventory_qty, quantity) ==
    [inv EXCEPT ![doc] = deducted_quantity(int_or_zero(inv[doc]), quantity)]

\* document(...).set({"quantity": max(0, inventory_qty - quantity)}, merge=True)
\* with the inventory_qty the call read earlier
set_quantity(inv, doc, inventory_qty, quantity) ==
    [inv EXCEPT ![doc] = deducted_quantity(inventory_qty, quantity)]

raceVars == <<ledger, audit_logs, inventory_loss, today, is_deleted_default, next_uuid,
              last, sent, deducted, snap, config>>

\* deduct_inventory(sales, transaction_id) is entered with a one-line sale
DeductEnter(c) ==
    /\ pc[c] = "idle"
    /\ \E sale \in RaceLines : msg' = [msg EXCEPT ![c] = RaceLocals(sale)]
    /\ pc' = [pc EXCEPT ![c] = "get"]
    /\ UNCHANGED <<inventory, inventory_issues, raceVars>>

\* document(...).get() and int(inventory_data["quantity"])
DeductGet(c) ==
    /\ pc[c] = "get"
    /\ msg' = [msg EXCEPT ![c].inventory_qty = int_or_zero(inventory[RaceDoc])]
    /\ pc' = [pc EXCEPT ![c] = "set"]
    /\ UNCHANGED <<inventory, inventory_issues, raceVars>>

\* the shortfall test and document(...).set(...)
DeductSet(c) ==
    /\ pc[c] = "set"
    /\ inventory' = set_quantity(inventory, RaceDoc, msg[c].inventory_qty,
                                 msg[c].sale.quantity)
    /\ msg' = [msg EXCEPT ![c].issues =
                  IF shortfall(msg[c].inventory_qty, msg[c].sale.quantity)
                  THEN Append(@, Issue(c, "rosa", "regular", msg[c].sale.quantity,
                                       "no hay suficiente inventario"))
                  ELSE @]
    /\ pc' = [pc EXCEPT ![c] = "add"]
    /\ UNCHANGED <<inventory_issues, raceVars>>

\* collection("inventory_issues").add(issue) for each issue; return issues
DeductReturn(c) ==
    /\ pc[c] = "add"
    /\ inventory_issues' = inventory_issues \o msg[c].issues
    /\ pc' = [pc EXCEPT ![c] = "done"]
    /\ UNCHANGED <<inventory, msg, raceVars>>

NextRace == \E c \in Invocations :
                DeductEnter(c) \/ DeductGet(c) \/ DeductSet(c) \/ DeductReturn(c)

InitRace ==
    /\ ledger = <<>>
    /\ audit_logs = <<>>
    /\ \E q \in 0..MaxStock : inventory = (RaceDoc :> q)
    /\ inventory_issues = <<>>
    /\ inventory_loss = <<>>
    /\ today = 1
    /\ is_deleted_default = "FALSE"
    /\ next_uuid = 1
    /\ last = NoCall
    /\ pc = [c \in Invocations |-> "idle"]
    /\ msg = [c \in Invocations |-> RaceLocals(Nothing)]
    /\ sent = {}
    /\ deducted = {}
    /\ snap = inventory
    /\ config = [developerID |-> TRUE, liveNotifications |-> FALSE]

SpecRace == InitRace /\ [][NextRace]_vars

-----------------------------------------------------------------------------
(* Properties of the ledger *)

\* The ledger as it was when the last call started (rows are only appended).
Before == SubSeq(ledger, 1, last.before)

RowsOf(led, transaction_id) ==
    {i \in 1..Len(led) : led[i].transaction_id = transaction_id}

Latest(S) == CHOOSE i \in S : \A j \in S : j <= i

\* The current state of a transaction_id is live: its most recent row exists
\* and is not a tombstone.
IsLive(led, transaction_id) ==
    /\ RowsOf(led, transaction_id) # {}
    /\ led[Latest(RowsOf(led, transaction_id))].operation = "None"

\* C1: every step leaves each row already written in place and unchanged, so
\* the number of rows never decreases.
C1_AppendOnly ==
    [][/\ Len(ledger') >= Len(ledger)
       /\ SubSeq(ledger', 1, Len(ledger)) = ledger]_vars

\* a tombstone has been appended and the row it shadows is still there
C1_Witness ==
    /\ last.op = "safe_delete"
    /\ last.raised = "none"
    /\ Len(ledger) >= 2
    /\ ledger[Len(ledger)].operation = "deleted"
    /\ \E i \in 1..last.before :
          /\ ledger[i].transaction_id = last.transaction_id
          /\ ledger[i].operation = "None"

\* C2: every transaction_id has at most one ledger row with operation = null.
C2_SingleLiveRow ==
    \A transaction_id \in TypedIds :
        Cardinality(LiveMatches(ledger, transaction_id)) <= 1

\* C4: a successful safe_edit(id, payload) appends exactly a tombstone and then
\* a live row whose transaction_id is id, whatever the payload carried.
C4_EditAppendsTombstoneAndLiveRow ==
    (last.op = "safe_edit" /\ last.raised = "none") =>
        /\ Len(ledger) = last.before + 2
        /\ ledger[last.before + 1].operation = "deleted"
        /\ ledger[last.before + 1].is_deleted = "TRUE"
        /\ ledger[last.before + 2].operation = "None"
        /\ ledger[last.before + 2].is_deleted = "FALSE"
        /\ ledger[last.before + 2].transaction_id = last.transaction_id

\* transaction 2 was edited on day 2 with the payload that carries
\* transaction_id 1, date 1, operation "deleted" and is_deleted true
C4_Witness ==
    /\ last.op = "safe_edit"
    /\ last.raised = "none"
    /\ last.transaction_id = 2
    /\ today = 2
    /\ ledger[Len(ledger)].date = 1
    /\ ledger[Len(ledger)].transaction_id = 2

\* C5: safe_delete(id) for an id whose current state is not live (never
\* inserted, or deleted) raises the not-found error and appends no row.
C5_DeleteRequiresLiveRow ==
    (last.op = "safe_delete" /\ ~IsLive(Before, last.transaction_id)) =>
        /\ last.raised = "ValueError"
        /\ ledger = Before

\* C6: a safe_delete(id) that directly follows a successful safe_delete(id)
\* fails: no successful safe_delete appends its tombstone right after the
\* tombstone of the same id.
C6_SecondDeleteFails ==
    ~ /\ last.op = "safe_delete"
      /\ last.raised = "none"
      /\ last.before >= 1
      /\ ledger[last.before].operation = "deleted"
      /\ ledger[last.before].transaction_id = last.transaction_id

C10_NotFoundWhenNotLive ==
    (last.op = "get_transaction_by_id" /\ ~IsLive(ledger, last.transaction_id)) =>
        last.returned = <<>>

\* C26: a successful insert of a payload without transaction_id writes a row
\* whose id no earlier row has, an insert of a payload that carries a
\* transaction_id writes it under that id, and a successful safe_edit writes
\* its tombstone and its new live row under the id of the row it replaced.
C26_IdAssignedOnceAndKept ==
    /\ (last.op = "insert" /\ last.raised = "none") =>
          /\ Len(ledger) = last.before + 1
          /\ ledger[Len(ledger)].transaction_id = last.transaction_id
          /\ IF ledger[Len(ledger)].sales = Carried.sales
             THEN ledger[Len(ledger)].transaction_id = Carried.transaction_id
             ELSE RowsOf(Before, ledger[Len(ledger)].transaction_id) = {}
    /\ (last.op = "safe_edit" /\ last.raised = "none") =>
          /\ LiveMatches(Before, ledger[Len(ledger)].transaction_id) # {}
          /\ ledger[Len(ledger)].transaction_id = last.transaction_id
          /\ ledger[Len(ledger) - 1].transaction_id = last.transaction_id

\* the payload that carries transaction_id 0 was inserted after a row with a
\* generated id
C26_Witness ==
    /\ last.op = "insert"
    /\ last.raised = "none"
    /\ Len(ledger) >= 2
    /\ ledger[Len(ledger)].transaction_id = 0
    /\ ledger[1].transaction_id = 1

\* C27: the tombstone a successful safe_delete appends equals a row of the
\* transaction_id with operation = null in every field, except operation =
\* "deleted", is_deleted = true and date = the day of the call.
C27_TombstoneIsFullCopy ==
    [][(/\ last'.op = "safe_delete"
        /\ last'.raised = "none"
        /\ Len(ledger') = Len(ledger) + 1)
       =>
       \E i \in LiveMatches(ledger, last'.transaction_id) :
          ledger'[Len(ledger')] =
              [ledger[i] EXCEPT !.operation = "deleted", !.is_deleted = "TRUE",
                                !.date = today]]_vars

\* a cash sale of day 1 was deleted on day 2
C27_Witness ==
    /\ last.op = "safe_delete"
    /\ last.raised = "none"
    /\ today = 2
    /\ ledger[Len(ledger)].date = 2
    /\ ledger[Len(ledger)].operation = "deleted"
    /\ ledger[Len(ledger)].sales # <<>>
    /\ \E i \in LiveMatches(Before, last.transaction_id) :
          /\ ledger[i].date = 1
          /\ ledger[i].sales = ledger[Len(ledger)].sales
          /\ ledger[i].total_sale_price = ledger[Len(ledger)].total_sale_price

\* C28: every ledger row has is_deleted true exactly when its operation is
\* "deleted" and is_deleted false exactly when its operation is null.
C28_IsDeletedMirrorsOperation ==
    \A i \in 1..Len(ledger) :
        /\ ledger[i].is_deleted = "TRUE" <=> ledger[i].operation = "deleted"
        /\ ledger[i].is_deleted = "FALSE" <=> ledger[i].operation = "None"

\* C29: the tombstone of a successful safe_delete or safe_edit copies the
\* most recent row of the transaction_id with operation = null, never an
\* older one.
C29_TombstoneOfMostRecentLiveRow ==
    (/\ last.op \in {"safe_delete", "safe_edit"}
     /\ Len(ledger) > last.before)
    =>
    LET tombstone == ledger[last.before + 1]
        current == Before[Latest(LiveMatches(Before, last.transaction_id))]
    IN  tombstone = Shadow(current, tombstone.date)

\* C33: a safe_edit that raised has appended nothing: the ledger is as it
\* was before the call, with no tombstone that lacks its replacement row.
C33_FailedEditAppendsNothing ==
    (last.op = "safe_edit" /\ last.raised # "none") => ledger = Before

-----------------------------------------------------------------------------
(* Properties of the closure report *)

\* the transaction_ids that have a tombstone: deleted or edited
Tombstoned(led) ==
    {led[i].transaction_id : i \in {j \in 1..Len(led) : led[j].operation = "deleted"}}

\* the ledger without any row of the transaction_ids in ids
Without(led, ids) ==
    LET Kept(row) == row.transaction_id \notin ids
    IN  SelectSeq(led, Kept)

\* the sum of f over the set of rows I of the ledger, null when none has a value
RECURSIVE SumOver(_, _)
SumOver(I, f) ==
    IF I = {} THEN 0
    ELSE LET i == CHOOSE i \in I : TRUE
         IN  f[i] + SumOver(I \ {i}, f)

SumOrNull(I, f) == IF I = {} THEN NoneNum ELSE SumOver(I, f)

\* C11: a transaction_id that was edited or deleted contributes nothing to
\* the report: the report over the ledger is the report over the ledger
\* without the original row, the tombstones and the replacement rows of every
\* such transaction_id, and none of them is among the rows aggregated.
C11_EditedOrDeletedExcluded ==
    last.op = "get_closure_report_by_date" =>
        /\ last.returned[1] =
              get_closure_report_by_date(Without(ledger, Tombstoned(ledger)), last.date)
        /\ \A n \in 1..Len(unique_transactions(ledger)) :
              unique_transactions(ledger)[n].transaction_id \notin Tombstoned(ledger)

\* a report for the day of a replacement cash row, with an untouched cash sale
\* of the same day in the ledger: only the untouched one is counted
C11_Witness ==
    /\ last.op = "get_closure_report_by_date"
    /\ last.returned[1].efectivo_sales = 4
    /\ \E i \in 1..Len(ledger) :
          /\ ledger[i].transaction_id \in Tombstoned(ledger)
          /\ ledger[i].operation = "None"
          /\ ledger[i].payment_method = "cash"
          /\ ledger[i].date = last.date
          /\ i > 2

\* C12: on a ledger where every transaction_id has one row, the report of day
\* d holds the sum of total_sale_price over the cash rows of d, the same over
\* the bank_transfer rows of d, and the sum of every expenses[] amount of the
\* rows of d (null, which the caller reads as 0, when there is no such value).
C12_ReportSums ==
    (/\ last.op = "get_closure_report_by_date"
     /\ \A i, j \in 1..Len(ledger) :
            ledger[i].transaction_id = ledger[j].transaction_id => i = j)
    =>
    LET OfDay == {i \in 1..Len(ledger) : ledger[i].date = last.date}
        Paid(method) == {i \in OfDay : ledger[i].payment_method = method}
        WithExpenses == {i \in OfDay : ledger[i].expenses # <<>>}
        price == [i \in 1..Len(ledger) |-> ledger[i].total_sale_price]
        spent == [i \in 1..Len(ledger) |-> Plus(ledger[i].expenses)]
    IN  /\ last.returned[1].efectivo_sales = SumOrNull(Paid("cash"), price)
        /\ last.returned[1].transfer_sales = SumOrNull(Paid("bank_transfer"), price)
        /\ last.returned[1].total_expenses = SumOrNull(WithExpenses, spent)

\* a report of day 2 over a transfer of day 1 and a cash sale of day 2 that
\* records two expenses
C12_Witness ==
    /\ last.op = "get_closure_report_by_date"
    /\ last.date = 2
    /\ Len(ledger) = 2
    /\ ledger[1].transaction_id # ledger[2].transaction_id
    /\ ledger[1].date = 1 /\ ledger[1].payment_method = "bank_transfer"
    /\ ledger[2].date = 2 /\ Len(ledger[2].expenses) = 2
    /\ last.returned[1] =
          [efectivo_sales |-> 4, transfer_sales |-> NoneNum, total_expenses |-> 3]

\* the three sums of the report over the set of rows I of the ledger
ReportOver(I) ==
    LET Paid(method) == {i \in I : ledger[i].payment_method = method}
        WithExpenses == {i \in I : ledger[i].expenses # <<>>}
        price == [i \in 1..Len(ledger) |-> ledger[i].total_sale_price]
        spent == [i \in 1..Len(ledger) |-> Plus(ledger[i].expenses)]
    IN  [efectivo_sales |-> SumOrNull(Paid("cash"), price),
         transfer_sales |-> SumOrNull(Paid("bank_transfer"), price),
         total_expenses |-> SumOrNull(WithExpenses, spent)]

\* the rows of date d whose transaction_id has no other row of date d
OneRowInDateScope(d) ==
    {i \in 1..Len(ledger) :
        /\ ledger[i].date = d
        /\ \A j \in 1..Len(ledger) :
              (ledger[j].transaction_id = ledger[i].transaction_id
               /\ ledger[j].date = d) => j = i}

\* the rows of date d whose transaction_id has no other row of any date
OneRowInLedger(d) ==
    {i \in 1..Len(ledger) :
        /\ ledger[i].date = d
        /\ \A j \in 1..Len(ledger) :
              ledger[j].transaction_id = ledger[i].transaction_id => j = i}

\* C30 as stated: the report of day d aggregates the rows of d whose
\* transaction_id has exactly one row dated d, so a row of d whose tombstone
\* carries a later date is counted.
C30_OneRowCountedWithinDateScope ==
    last.op = "get_closure_report_by_date" =>
        last.returned[1] = ReportOver(OneRowInDateScope(last.date))

\* C30 amended: the report of day d aggregates the rows of d whose
\* transaction_id has exactly one row in the whole ledger, whatever the dates
\* of the other rows, so a row of d whose tombstone carries a later date is
\* not counted.
C30_OneRowCountedInWholeLedger ==
    last.op = "get_closure_report_by_date" =>
        /\ last.returned[1] = ReportOver(OneRowInLedger(last.date))
        /\ \A i \in OneRowInLedger(last.date) :
              ledger[i].transaction_id \notin Tombstoned(ledger)

\* a report of day 1 over a cash sale of day 1 that was deleted on day 2
C30_Witness ==
    /\ last.op = "get_closure_report_by_date"
    /\ last.date = 1
    /\ last.returned[1].efectivo_sales = NoneNum
    /\ \E i, j \in 1..Len(ledger) :
          /\ ledger[i].date = 1
          /\ ledger[i].payment_method = "cash"
          /\ ledger[i].operation = "None"
          /\ ledger[j].transaction_id = ledger[i].transaction_id
          /\ ledger[j].operation = "deleted"
          /\ ledger[j].date = 2

-----------------------------------------------------------------------------
(* Properties of the inventory *)

C24_LostUpdate ==
    (/\ \A c \in Invocations : pc[c] = "done"
     /\ \A c \in Invocations : msg[c].inventory_qty = snap[RaceDoc]
     /\ snap[RaceDoc] >= msg[1].sale.quantity + msg[2].sale.quantity)
    =>
    /\ inventory[RaceDoc] \in {snap[RaceDoc] - msg[c].sale.quantity : c \in Invocations}
    /\ inventory[RaceDoc] #
          snap[RaceDoc] - msg[1].sale.quantity - msg[2].sale.quantity
    /\ inventory_issues = <<>>

\* both calls read 3; the call of 2 units wrote first and the call of 1 unit
\* wrote last, so the record ends at 2 and not at 0
C24_Witness ==
    /\ \A c \in Invocations : pc[c] = "done"
    /\ snap[RaceDoc] = 3
    /\ msg[1].inventory_qty = 3 /\ msg[1].sale.quantity = 1
    /\ msg[2].inventory_qty = 3 /\ msg[2].sale.quantity = 2
    /\ inventory[RaceDoc] = 2

-----------------------------------------------------------------------------
(* Properties of one call of the inventory manager *)

IsNumber(v) == v # NoneNum /\ v # Missing

\* the inventory document a sale line is about
DocOf(line) ==
    document(resolve_synonyms(line.item, line.quality)[1],
             resolve_synonyms(line.item, line.quality)[2])

\* the issue deduct_inventory records for a line, for a reason
IssueOf(line, reason) ==
    Issue(1, resolve_synonyms(line.item, line.quality)[1],
          resolve_synonyms(line.item, line.quality)[2], line.quantity, reason)

\* how many times an issue is in a list of issues
Count(issues, issue) == Cardinality({k \in 1..Len(issues) : issues[k] = issue})

\* the entries the last call added to the inventory_issues collection
Logged == SubSeq(inventory_issues, last.issues + 1, Len(inventory_issues))

\* no other line of the call is about the document of line n
Alone(lines, n) == \A m \in 1..Len(lines) : DocOf(lines[m]) = DocOf(lines[n]) => m = n

\* C13: a deduct of lines with integer quantities does not raise, and for a
\* line of n units against a record that held q < n units it returns and
\* logs exactly one issue "no hay suficiente inventario" and leaves the
\* record at 0.
C13_ShortfallIsFlaggedAndClamped ==
    (/\ last.op = "deduct_inventory"
     /\ \A n \in 1..Len(last.lines) : IsNumber(last.lines[n].quantity))
    =>
    /\ last.raised = "none"
    /\ \A n \in 1..Len(last.lines) :
          LET line == last.lines[n]
              doc == DocOf(line)
          IN  (/\ Alone(last.lines, n)
               /\ doc \in DOMAIN last.inventory
               /\ IsNumber(last.inventory[doc])
               /\ last.inventory[doc] < line.quantity)
              =>
              /\ inventory[doc] = 0
              /\ Count(last.returned, IssueOf(line, "no hay suficiente inventario")) = 1
              /\ Count(Logged, IssueOf(line, "no hay suficiente inventario")) = 1

\* C34: a deduct of lines whose quantities are integers or null does not
\* raise, and every issue it returned is in the issues log.
C34_DeductReturnsForNullQuantities ==
    last.op = "deduct_inventory" =>
        /\ last.raised = "none"
        /\ \A n \in 1..Len(last.returned) : Count(Logged, last.returned[n]) >= 1

\* 2 units were asked of a record that held 1
C13_Witness ==
    /\ last.op = "deduct_inventory"
    /\ last.raised = "none"
    /\ \E n \in 1..Len(last.lines) :
          /\ last.lines[n].quantity = 2
          /\ DocOf(last.lines[n]) \in DOMAIN last.inventory
          /\ last.inventory[DocOf(last.lines[n])] = 1
          /\ inventory[DocOf(last.lines[n])] = 0
          /\ Len(last.returned) = 1

\* C14: in a deduct that completes, a line whose resolved document does not
\* exist gets the issue "no existe en inventario", its document is not
\* created, and the lines after it are processed: each is deducted from its
\* record or gets its own issue.
C14_MissingRecordIsSkipped ==
    (last.op = "deduct_inventory" /\ last.raised = "none")
    =>
    \A n \in 1..Len(last.lines) :
        LET line == last.lines[n]
            doc == DocOf(line)
        IN  (Alone(last.lines, n) /\ doc \notin DOMAIN last.inventory)
            =>
            /\ doc \notin DOMAIN inventory
            /\ Count(last.returned, IssueOf(line, "no existe en inventario")) = 1
            /\ Count(Logged, IssueOf(line, "no existe en inventario")) = 1
            /\ \A m \in (n + 1)..Len(last.lines) :
                  LET later == last.lines[m]
                      other == DocOf(later)
                  IN  IF other \in DOMAIN last.inventory
                      THEN IsNumber(last.inventory[other]) =>
                              inventory[other] =
                                  IF last.inventory[other] < later.quantity THEN 0
                                  ELSE last.inventory[other] - later.quantity
                      ELSE Count(last.returned,
                                 IssueOf(later, "no existe en inventario")) = 1

\* the first of two lines had no record; the second was deducted from 2 to 1
C14_Witness ==
    /\ last.op = "deduct_inventory"
    /\ last.raised = "none"
    /\ Len(last.lines) = 2
    /\ DocOf(last.lines[1]) \notin DOMAIN inventory
    /\ Len(last.returned) = 1
    /\ last.returned[1].reason = "no existe en inventario"
    /\ last.inventory[DocOf(last.lines[2])] = 2
    /\ inventory[DocOf(last.lines[2])] = 1

\* C15: a deduct that completes has added to the inventory_issues collection
\* exactly the issues it returned, in the same order, and nothing else.
C15_ReturnedIssuesAreLogged ==
    (last.op = "deduct_inventory" /\ last.raised = "none")
    =>
    /\ Len(inventory_issues) = last.issues + Len(last.returned)
    /\ Logged = last.returned

\* a deduct returned an issue
C15_Witness ==
    /\ last.op = "deduct_inventory"
    /\ last.raised = "none"
    /\ last.returned # <<>>
    /\ inventory_issues = last.returned

\* two names that differ in letter case only
SameIgnoringCase(a, b) ==
    \/ a = b
    \/ {a, b} = {"Rosa Ecuador", "rosa ecuador"}
    \/ {a, b} = {"Clavel Rojo", "clavel rojo"}

\* C16: a completed deduct of a line whose item is the alias of a synonym
\* entry with a canonical item and quality works on the record keyed by
\* these: that record is deducted (or, when it does not exist, named in the
\* issue), and no record keyed by the alias and the line's quality is created
\* or changed.
C16_DeductUsesCanonicalKey ==
    (last.op = "deduct_inventory" /\ last.raised = "none")
    =>
    \A n \in 1..Len(last.lines), k \in 1..Len(inventory_synonyms) :
        LET line == last.lines[n]
            entry == inventory_synonyms[k]
            canonical == document(entry.item, entry.quality)
            raw == document(line.item, line.quality)
        IN  (/\ entry.quality # "Missing"
             /\ SameIgnoringCase(line.item, entry.alias)
             /\ line.item # entry.item
             /\ IsNumber(line.quantity))
            =>
            /\ IF canonical \in DOMAIN last.inventory
               THEN IsNumber(last.inventory[canonical]) =>
                       inventory[canonical] =
                           IF last.inventory[canonical] < line.quantity THEN 0
                           ELSE last.inventory[canonical] - line.quantity
               ELSE \E i \in 1..Len(last.returned) :
                       /\ last.returned[i].item = entry.item
                       /\ last.returned[i].quality = entry.quality
            /\ raw \in DOMAIN last.inventory => inventory[raw] = last.inventory[raw]
            /\ raw \notin DOMAIN last.inventory => raw \notin DOMAIN inventory

\* one unit of "Rosa Ecuador" (regular) was deducted from rosa_special
C16_Witness ==
    /\ last.op = "deduct_inventory"
    /\ last.raised = "none"
    /\ last.lines = <<Line("Rosa Ecuador", "regular", 1)>>
    /\ "rosa_special" \in DOMAIN last.inventory
    /\ last.inventory["rosa_special"] = 2
    /\ inventory["rosa_special"] = 1
    /\ "Rosa Ecuador_regular" \notin DOMAIN inventory

\* C17: resolve_synonyms(item, quality) returns the canonical item and
\* quality of an entry whose alias is item ignoring letter case (the quality
\* given when the entry has none), returns (item, quality) when no alias
\* matches, and leaves the inventory and the issues collection as they were.
C17_ResolveSynonyms ==
    last.op = "resolve_synonyms" =>
        LET item == last.lines[1].item
            quality == last.lines[1].quality
            Matching == {k \in 1..Len(inventory_synonyms) :
                            SameIgnoringCase(item, inventory_synonyms[k].alias)}
        IN  /\ IF Matching = {}
               THEN last.returned = <<item, quality>>
               ELSE \E k \in Matching :
                      last.returned =
                          <<inventory_synonyms[k].item,
                            IF inventory_synonyms[k].quality = "Missing" THEN quality
                            ELSE inventory_synonyms[k].quality>>
            /\ inventory = last.inventory
            /\ Len(inventory_issues) = last.issues

\* "Rosa Ecuador" matched the alias "rosa ecuador", with records in the
\* inventory
C17_Witness ==
    /\ last.op = "resolve_synonyms"
    /\ last.lines[1].item = "Rosa Ecuador"
    /\ last.lines[1].quality = "regular"
    /\ last.returned = <<"rosa", "special">>
    /\ inventory # <<>>

\* C18: restore_inventory(item, quality, n) with an integer n adds n to the
\* quantity of an existing record that holds a number, and on a key with no
\* record it raises nothing and creates the record with quantity n.
C18_RestoreAddsOrCreates ==
    (last.op = "restore_inventory" /\ IsNumber(last.lines[1].quantity))
    =>
    LET doc == DocOf(last.lines[1])
        n == last.lines[1].quantity
    IN  IF doc \in DOMAIN last.inventory
        THEN IsNumber(last.inventory[doc]) =>
                /\ last.raised = "none"
                /\ inventory[doc] = last.inventory[doc] + n
        ELSE /\ last.raised = "none"
             /\ doc \in DOMAIN inventory
             /\ inventory[doc] = n

\* 2 units were restored to a key that had no record, next to another record
C18_Witness ==
    /\ last.op = "restore_inventory"
    /\ last.lines[1].quantity = 2
    /\ last.inventory # <<>>
    /\ DocOf(last.lines[1]) \notin DOMAIN last.inventory
    /\ inventory[DocOf(last.lines[1])] = 2

\* C19 as stated: deducting n from an existing record and then restoring n
\* returns the record to the quantity it held before the deduction, for any
\* record and any n.
C19_RestoreUndoesAnyDeduct ==
    (/\ last.op = "restore_inventory"
     /\ last.undoes # <<>>
     /\ IsNumber(last.lines[1].quantity)
     /\ DocOf(last.lines[1]) \in DOMAIN last.undoes[1]
     /\ IsNumber(last.undoes[1][DocOf(last.lines[1])]))
    =>
    /\ last.raised = "none"
    /\ inventory[DocOf(last.lines[1])] = last.undoes[1][DocOf(last.lines[1])]

\* C19 amended: deducting n from an existing record that holds q >= n and
\* then restoring n returns the record to q; when q < n the deduction clamps
\* to 0 and the restore leaves the record at n.
C19_RestoreUndoesCoveredDeduct ==
    (/\ last.op = "restore_inventory"
     /\ last.undoes # <<>>
     /\ IsNumber(last.lines[1].quantity)
     /\ DocOf(last.lines[1]) \in DOMAIN last.undoes[1]
     /\ IsNumber(last.undoes[1][DocOf(last.lines[1])]))
    =>
    /\ last.raised = "none"
    /\ inventory[DocOf(last.lines[1])] =
          IF last.undoes[1][DocOf(last.lines[1])] >= last.lines[1].quantity
          THEN last.undoes[1][DocOf(last.lines[1])]
          ELSE last.lines[1].quantity

\* 1 unit was deducted from a record of 2 and restored: the record holds 2
C19_Witness ==
    /\ last.op = "restore_inventory"
    /\ last.undoes # <<>>
    /\ last.lines[1].quantity = 1
    /\ DocOf(last.lines[1]) \in DOMAIN last.undoes[1]
    /\ last.undoes[1][DocOf(last.lines[1])] = 2
    /\ last.inventory[DocOf(last.lines[1])] = 1
    /\ inventory[DocOf(last.lines[1])] = 2

\* C20: update_inventory(item, quality, n) sets the resolved record to n
\* whatever it held, leaves the other records alone, and a second update
\* with the same arguments changes nothing.
C20_UpdateIsAbsoluteSet ==
    last.op = "update_inventory" =>
        LET line == last.lines[1]
            doc == DocOf(line)
        IN  /\ doc \in DOMAIN inventory
            /\ inventory[doc] = line.quantity
            /\ DOMAIN inventory = DOMAIN last.inventory \cup {doc}
            /\ \A other \in DOMAIN last.inventory :
                  other # doc => inventory[other] = last.inventory[other]
            /\ update_inventory(inventory, line.item, line.quality, line.quantity)
                  = inventory

\* a record that held 2 was updated to 1
C20_Witness ==
    /\ last.op = "update_inventory"
    /\ last.lines[1].quantity = 1
    /\ DocOf(last.lines[1]) \in DOMAIN last.inventory
    /\ last.inventory[DocOf(last.lines[1])] = 2
    /\ inventory[DocOf(last.lines[1])] = 1

-----------------------------------------------------------------------------
(* Properties of the new-transaction handler *)

\* C8: every sale deduction applied for a transaction_id and every
\* data_insert audit entry for it finds a ledger row with that transaction_id
\* already written, and the row written for a message stays when the
\* deduction or the audit write of that message fails.
C8_InsertBeforeDeductAndLog ==
    /\ \A d \in deducted : RowsOf(ledger, d[1]) # {}
    /\ \A n \in 1..Len(audit_logs) :
          audit_logs[n].operation_type = "data_insert" =>
              RowsOf(ledger, audit_logs[n].transaction_id) # {}
    /\ msg.raised_at \in {"deduct_inventory", "log_to_bigquery"} =>
          RowsOf(ledger, msg.structured_data.transaction_id) # {}

\* a sale was deducted and then its audit write raised
C8_Witness ==
    /\ pc = "idle"
    /\ msg.raised_at = "log_to_bigquery"
    /\ \E d \in deducted : d[1] = msg.structured_data.transaction_id
    /\ RowsOf(ledger, msg.structured_data.transaction_id) # {}

\* C9: when the ledger write of the message reports row-level errors, the
\* insert raises and nothing else runs: the ledger, the inventory, the
\* inventory issues and the audit log are as they were when the message came.
C9_FailedInsertStopsTheHandler ==
    msg.insert_errors =>
        /\ msg.raised_at = "insert_to_bigquery"
        /\ pc = "idle"
        /\ ledger = snap.ledger
        /\ inventory = snap.inventory
        /\ inventory_issues = snap.inventory_issues
        /\ audit_logs = snap.audit_logs

\* the insert of a sale failed after an earlier sale had been stored and
\* deducted
C9_Witness ==
    /\ msg.insert_errors
    /\ msg.structured_data.sales # <<>>
    /\ ledger # <<>>
    /\ deducted # {}

\* C23: a failed audit write is never raised into the handler, and a message
\* whose row was stored and whose replies could be delivered gets its
\* confirmation whether the audit write succeeded or not.
C23_AuditWriteIsBestEffort ==
    /\ msg.raised_at # "log_to_bigquery"
    /\ (/\ pc = "idle"
        /\ msg.handler = "data_insert"
        /\ Len(ledger) > Len(snap.ledger)
        /\ msg.raised_at \notin {"deduct_inventory", "send_message"})
       => "confirmation" \in sent

\* C37: a data-insert message whose extracted payload has neither sales nor
\* expenses writes nothing: no ledger row, no inventory change, no issue, no
\* loss entry and no audit entry; a payload with expenses and no sales appends
\* one ledger row carrying its expenses, once the insert has returned without
\* errors, and leaves the inventory and its issues as they were.
C37_EmptyWritesNothingExpenseOnlyOneRow ==
    (msg.handler = "data_insert" /\ msg.raised_at # "interpret_message_with_gpt") =>
        /\ no_sale_or_expense(msg.structured_data) =>
              /\ pc = "idle"
              /\ sent = {"no_sale_or_expense"}
              /\ ledger = snap.ledger
              /\ audit_logs = snap.audit_logs
              /\ inventory = snap.inventory
              /\ inventory_issues = snap.inventory_issues
              /\ inventory_loss = snap.inventory_loss
        /\ (msg.structured_data.sales = <<>> /\ msg.structured_data.expenses # <<>>) =>
              /\ inventory = snap.inventory
              /\ inventory_issues = snap.inventory_issues
              /\ inventory_loss = snap.inventory_loss
              /\ pc = "insert_to_bigquery" => ledger = snap.ledger
              /\ (pc # "insert_to_bigquery" /\ ~msg.insert_errors) =>
                    /\ Len(ledger) = Len(snap.ledger) + 1
                    /\ SubSeq(ledger, 1, Len(snap.ledger)) = snap.ledger
                    /\ ledger[Len(ledger)].expenses = msg.structured_data.expenses
                    /\ ledger[Len(ledger)].sales = <<>>
                    /\ ledger[Len(ledger)].transaction_id = msg.structured_data.transaction_id
              /\ (pc # "insert_to_bigquery" /\ msg.insert_errors) => ledger = snap.ledger

C37_Witness ==
    /\ msg.handler = "data_insert"
    /\ pc = "idle"
    /\ msg.raised_at = "none"
    /\ msg.structured_data.sales = <<>>
    /\ msg.structured_data.expenses # <<>>
    /\ Len(ledger) = Len(snap.ledger) + 1
    /\ "transaction_id" \in sent
    /\ \E doc \in DOMAIN inventory : inventory[doc] > 0


\* C35: when the new-transaction handler has ended and has appended a
\* ledger row, the sender was sent the message with the row's transaction_id,
\* and was not answered with the generic error alone.
C35_StoredRowIsConfirmed ==
    (/\ pc = "idle"
     /\ msg.handler = "data_insert"
     /\ Len(ledger) > Len(snap.ledger))
    =>
    /\ "transaction_id" \in sent
    /\ "generic_error" \notin sent

-----------------------------------------------------------------------------
(* Properties of the command handlers *)

\* C21: when the delete command has written the tombstone of the transaction
\* the message before it stored, and every sale line of that transaction was
\* deducted from stock that covered it, every inventory quantity is what it
\* was before the insert.
C21_DeleteRestoresTheInsert ==
    (/\ msg.handler = "delete"
     /\ msg.done
     /\ msg.undo_of # <<>>
     /\ msg.undo_of[1].transaction_id = msg.transaction_id)
    => inventory = msg.undo_of[1].inventory

\* the transfer sale of "Rosa Ecuador", stored under uuid 2 and deducted from
\* rosa_special, was deleted: rosa_special is 1 again
C21_Witness ==
    /\ pc = "idle"
    /\ msg.handler = "delete"
    /\ msg.done
    /\ msg.transaction_id = 2
    /\ msg.undo_of # <<>>
    /\ msg.undo_of[1].transaction_id = 2
    /\ msg.transaction[1].sales[1].item = "Rosa Ecuador"
    /\ snap.inventory["rosa_special"] = 0
    /\ inventory["rosa_special"] = 1
    /\ "deleted" \in sent

\* C22: when the edit command has replaced a live sale, the inventory is
\* what restoring the old row's sale lines and then deducting the new
\* payload's sale lines makes of the inventory the command found.
C22_EditRestoresThenDeducts ==
    (/\ msg.handler = "edit"
     /\ msg.done
     /\ msg.transaction[1].sales # <<>>)
    =>
    LET old == msg.transaction[1]
        restored == restore_sales(snap.inventory, old.sales, Len(old.sales))
    IN  inventory =
            deduct_inventory(restored.inventory, snap.inventory_issues,
                             msg.new_data.sales, msg.transaction_id,
                             Len(msg.new_data.sales) + 1).inventory

\* C25: a delete command whose word count is not 3, an edit command with
\* fewer than 3 parts and a closure command whose word count is not 2 get
\* the format message at most, and the handler ends without having read or
\* written the ledger, the inventory, the issues log or the audit log.
C25_MalformedCommandTouchesNoStore ==
    (\/ msg.handler = "delete" /\ Len(msg.message) # 3
     \/ msg.handler = "edit" /\ Len(msg.message) < 3
     \/ msg.handler = "closure" /\ Len(msg.message) # 2)
    =>
    /\ pc = "idle"
    /\ msg.accessed = {}
    /\ sent \subseteq {"format_eliminar", "format_editar", "format_cierre"}
    /\ ledger = snap.ledger
    /\ inventory = snap.inventory
    /\ inventory_issues = snap.inventory_issues
    /\ audit_logs = snap.audit_logs

\* a delete command of four words that names the live sale of uuid 1 was
\* answered with the format message
C25_Witness ==
    /\ msg.handler = "delete"
    /\ Len(msg.message) = 4
    /\ LiveMatches(ledger, uuid_of(msg.message[2])) # {}
    /\ sent = {"format_eliminar"}
    /\ pc = "idle"

\* C31: a delete command for a transaction_id that already had a tombstone
\* when the command came finds no transaction, adds nothing to the inventory
\* and appends no ledger row.
C31_RepeatedDeleteRestoresNothing ==
    (/\ msg.handler = "delete"
     /\ msg.transaction_id \in Tombstoned(snap.ledger))
    =>
    /\ msg.transaction = <<>>
    /\ inventory = snap.inventory
    /\ ledger = snap.ledger

\* C32: when the delete handler has ended and the inventory is not what it
\* was when the command came, the handler has appended the tombstone of the
\* transaction_id.
C32_RestoreImpliesTombstone ==
    (/\ pc = "idle"
     /\ msg.handler = "delete"
     /\ inventory # snap.inventory)
    =>
    /\ Len(ledger) = Len(snap.ledger) + 1
    /\ ledger[Len(ledger)].transaction_id = msg.transaction_id
    /\ ledger[Len(ledger)].operation = "deleted"

\* C36: a message of a user that is not allowed, whatever its text, ends
\* in its handler and leaves the ledger, the inventory, the issues log and
\* the loss log as they were; the audit log gets at most one entry, of type
\* unauthorized_access, and exactly one when the reply was delivered and the
\* audit write succeeded.
C36_UnauthorizedChangesNothing ==
    msg.handler = "unauthorized_access" =>
        /\ pc = "idle"
        /\ ledger = snap.ledger
        /\ inventory = snap.inventory
        /\ inventory_issues = snap.inventory_issues
        /\ inventory_loss = snap.inventory_loss
        /\ audit_logs \in {snap.audit_logs,
                           Append(snap.audit_logs,
                                  LogEntry("unauthorized_access", NoneNum))}
        /\ msg.done => audit_logs # snap.audit_logs

\* a user that is not allowed sent the delete command of the live sale of
\* uuid 1: the sale is still live and the audit log has the entry
C36_Witness ==
    /\ msg.handler = "unauthorized_access"
    /\ msg.message = <<"eliminar", "1", "mila">>
    /\ msg.done
    /\ LiveMatches(ledger, 1) # {}
    /\ Tombstoned(ledger) = {}
    /\ audit_logs[Len(audit_logs)].operation_type = "unauthorized_access"

\* the inventory after the first n entries, each taken from its record with
\* a floor at 0, an entry without a record leaving the inventory as it is
RECURSIVE ClampedAfter(_, _, _)
ClampedAfter(inv, entries, n) ==
    IF n = 0 THEN inv
    ELSE LET before == ClampedAfter(inv, entries, n - 1)
             doc == entries[n].item \o "_" \o entries[n].quality
         IN  IF doc \in DOMAIN before
             THEN [before EXCEPT ![doc] = IF @ > entries[n].quantity
                                          THEN @ - entries[n].quantity ELSE 0]
             ELSE before

\* the loss command went through its k entries without an exception
LossLoopDone ==
    /\ msg.handler = "inventory_loss"
    /\ msg.inventory_entries # <<>>
    /\ pc # "deduct_loss"
    /\ msg.raised_at \notin {"deduct_inventory", "log_inventory_loss"}

\* C38: a loss command with k extracted entries leaves the ledger unchanged;
\* when its loop has gone through the k entries the inventory is the result of
\* one clamped deduction per entry and the inventory-loss log has exactly k new
\* entries, one per entry in order, entries whose deduction returned an issue
\* included; while the loop runs the log holds one entry per entry handled.
C38_LossLogsEveryEntry ==
    msg.handler = "inventory_loss" =>
        LET entries == msg.inventory_entries
            k == Len(entries)
            j == Len(inventory_loss) - Len(snap.inventory_loss)
        IN  /\ ledger = snap.ledger
            /\ j \in 0..k
            /\ inventory_loss = snap.inventory_loss \o [i \in 1..j |-> LossDoc(entries[i])]
            /\ pc = "deduct_loss" =>
                  /\ j = msg.n - 1
                  /\ inventory = ClampedAfter(snap.inventory, entries, j)
            /\ LossLoopDone =>
                  /\ j = k
                  /\ inventory = ClampedAfter(snap.inventory, entries, k)

C38_Witness ==
    /\ msg.handler = "inventory_loss"
    /\ pc = "idle"
    /\ msg.done
    /\ Len(msg.inventory_entries) = 2
    /\ msg.issues # <<>>
    /\ inventory # snap.inventory
    /\ Len(inventory_loss) = Len(snap.inventory_loss) + 2
    /\ ledger # <<>>
    /\ "loss_confirmation" \in sent

\* SQL NULL shown as 0
ZeroIfNull(v) == IF v = NoneNum THEN 0 ELSE v

\* C39: the amounts of the closure summary sent to the user are the
\* aggregates of today's report with a null aggregate shown as 0, its total
\* cash on hand is the cash sales minus the total expenses of that report, and
\* the closure command leaves the ledger, the inventory, its issues and the
\* loss log as they were.
C39_ClosureSummaryDerivedNotStored ==
    msg.handler = "closure" =>
        /\ ledger = snap.ledger
        /\ inventory = snap.inventory
        /\ inventory_issues = snap.inventory_issues
        /\ inventory_loss = snap.inventory_loss
        /\ "closure_summary" \in sent =>
              LET report == get_closure_report_by_date(ledger, today)
                  shown == msg.summary[1]
              IN  /\ shown.efectivo_sales = ZeroIfNull(report.efectivo_sales)
                  /\ shown.transfer_sales = ZeroIfNull(report.transfer_sales)
                  /\ shown.total_expenses = ZeroIfNull(report.total_expenses)
                  /\ shown.total_cash_on_hand =
                        ZeroIfNull(report.efectivo_sales)
                        - ZeroIfNull(report.total_expenses)

C39_Witness ==
    /\ msg.handler = "closure"
    /\ pc = "idle"
    /\ "closure_summary" \in sent
    /\ Len(ledger) > 2
    /\ LET report == get_closure_report_by_date(ledger, today)
       IN  /\ report.transfer_sales = NoneNum
           /\ report.efectivo_sales # NoneNum
           /\ report.total_expenses # NoneNum
           /\ msg.summary[1].transfer_sales = 0
           /\ msg.summary[1].total_cash_on_hand > 0

====
